---- MODULE Spec2Model ----
(***************************************************************************)
(* A model of g0's load-generation engine (internal/runner,                *)
(* internal/httpclient and the run command):                               *)
(*   - Stats: the lock-protected statistics collector (stats.go);          *)
(*   - URLRotator, Worker, the collector goroutine and the orchestrator    *)
(*     RunWithStatsAndChannel (urlrotator.go, worker.go, runner.go);       *)
(*   - runLoadTest, the command-line entry that validates the flags.       *)
(*                                                                         *)
(* Two state machines share the Stats definitions:                         *)
(*   SpecStats  concurrent callers of AddResult / GetProgressStats /       *)
(*              GetSummary on one Stats, statement by statement            *)
(*              under the RWMutex;                                         *)
(*   Spec       one run: runLoadTest or a direct call, the orchestrator,   *)
(*              the collector goroutine, the workers and the deadline.     *)
(*   FairSpec   Spec restricted to direct calls, with the fairness of the  *)
(*              Go scheduler and of the deadline timer.                    *)
(***************************************************************************)
EXTENDS Integers, Sequences, FiniteSets, TLC

\* ------------------------------------------------------------------------
\* Bounds of the model
\* ------------------------------------------------------------------------

\* SpecStats: number of concurrent callers of the Stats methods.
NumProcs == 2

\* SpecStats: number of AddResult calls made in one behaviour.
MaxAdds == 2

\* Spec: loop iterations begun by all workers together in one run.
MaxRequests == 2

\* SpecRot: calls of URLRotator.Next made in one behaviour.
MaxCalls == 9

\* SpecSummary: Results added to the Stats in one behaviour.
MaxSamples == 3

\* ------------------------------------------------------------------------
\* Program constants
\* ------------------------------------------------------------------------

\* runner.go:62  make(chan Result, config.Concurrency*10)
ChanFactor == 10

\* ------------------------------------------------------------------------
\* Values
\* ------------------------------------------------------------------------

\* Status codes a Result may carry: the 0 sentinel, a success code, and the
\* two codes around the failure threshold of AddResult.
StatusCodes == {0, 200, 399, 400}

\* Latencies a Result may carry (time units).
LatVals == {1, 2}

\* stats.go: type Result struct { Latency; StatusCode; Error }.
\* Error is modelled by whether it is non-nil.
Results == [Latency : LatVals, StatusCode : StatusCodes, Error : BOOLEAN]

\* The zero value of Result (what a receive from a closed channel yields).
ZeroResult == [Latency |-> 0, StatusCode |-> 0, Error |-> FALSE]

\* An empty Go map[int]int64.
EmptyMap == [k \in {} |-> 0]

\* m[k]++ on a Go map: a missing key reads as 0.
MapGet(m, k) == IF k \in DOMAIN m THEN m[k] ELSE 0

MapPut(m, k, v) == [x \in (DOMAIN m) \cup {k} |-> IF x = k THEN v ELSE m[x]]

RECURSIVE SumOver(_, _)
SumOver(m, keys) ==
    IF keys = {} THEN 0
    ELSE LET k == CHOOSE x \in keys : TRUE
         IN m[k] + SumOver(m, keys \ {k})

\* The sum of all counts of a histogram.
MapSum(m) == SumOver(m, DOMAIN m)

\* Mutant of NewStats: the histogram starts with the key 0 at count 0.
Mut_NewStats(t) ==
    [TotalRequests |-> 0, SuccessRequests |-> 0, FailedRequests |-> 0,
     StatusCodeCounts |-> [k \in {0} |-> 0], Latencies |-> <<>>,
     StartTime |-> t, EndTime |-> 0]

\* NewStats(): empty map, empty latencies, StartTime = time.Now().
\* EndTime 0 is the zero time.Time.
NewStats(t) ==
    [TotalRequests |-> 0, SuccessRequests |-> 0, FailedRequests |-> 0,
     StatusCodeCounts |-> EmptyMap, Latencies |-> <<>>,
     StartTime |-> t, EndTime |-> 0]

\* ------------------------------------------------------------------------
\* Stats.AddResult, as pure functions of the Stats value
\* ------------------------------------------------------------------------

\* Mutant of IsFailure: status 400 itself is not a failure.
Mut_IsFailure(r) == r.Error \/ r.StatusCode > 400

\* stats.go:45: result.Error != nil || result.StatusCode >= 400
IsFailure(r) == r.Error \/ r.StatusCode >= 400

\* stats.go:53-59: whether AddResult increments a histogram count at all
\* (neither branch is taken for status 0 without error, nor for a
\* negative status).
HasHistKey(r) == (r.Error /\ r.StatusCode = 0) \/ r.StatusCode > 0

\* Mutant of HistKey: every Result with an error goes under key 0, also
\* one that carries a valid status code.
Mut_HistKey(r) == IF r.Error THEN 0 ELSE r.StatusCode

\* stats.go:53-59: the histogram key that is incremented.
HistKey(r) == IF r.Error /\ r.StatusCode = 0 THEN 0 ELSE r.StatusCode

\* The whole of AddResult, executed under the write lock.
AddResultTo(s, r) ==
    LET s1 == [s EXCEPT !.TotalRequests = @ + 1,
                        !.Latencies = Append(@, r.Latency)]
        s2 == IF IsFailure(r)
              THEN [s1 EXCEPT !.FailedRequests = @ + 1]
              ELSE [s1 EXCEPT !.SuccessRequests = @ + 1]
        k  == HistKey(r)
    IN IF HasHistKey(r)
       THEN [s2 EXCEPT !.StatusCodeCounts = MapPut(@, k, MapGet(@, k) + 1)]
       ELSE s2

\* ------------------------------------------------------------------------
\* int64 values (time.Duration, URLRotator.idx) at their full width
\* ------------------------------------------------------------------------

\* An int64 is held as its 64 bits, in four 16-bit limbs, the most
\* significant first (two's complement), so that its whole range is
\* represented and its arithmetic wraps as the machine's does.
Limb == 65536

\* The int64 plus one, wrapping from 2^63 - 1 to -2^63 (and from -1 to
\* 0): atomic.AddInt64(&r.idx, 1) of urlrotator.go:35.
Inc64(c) ==
    IF c[4] < Limb - 1 THEN <<c[1], c[2], c[3], c[4] + 1>>
    ELSE IF c[3] < Limb - 1 THEN <<c[1], c[2], c[3] + 1, 0>>
    ELSE IF c[2] < Limb - 1 THEN <<c[1], c[2] + 1, 0, 0>>
    ELSE IF c[1] < Limb - 1 THEN <<c[1] + 1, 0, 0, 0>>
    ELSE <<0, 0, 0, 0>>

\* The sign bit.
IsNegative(c) == c[1] >= Limb \div 2

\* The magnitude of a negative value, as an unsigned number.
Negate(c) ==
    Inc64(<<Limb - 1 - c[1], Limb - 1 - c[2], Limb - 1 - c[3],
            Limb - 1 - c[4]>>)

\* The int64 of a plain integer of the model (below 2^31 in magnitude).
Int64(x) ==
    IF x >= 0 THEN <<0, 0, x \div Limb, x % Limb>>
    ELSE Negate(<<0, 0, (0 - x) \div Limb, (0 - x) % Limb>>)

\* The plain integer of an int64 below 2^31 in magnitude; a value beyond
\* that stays in limbs.
IntOf(c) ==
    IF IsNegative(c)
    THEN LET m == Negate(c)
         IN IF m[1] = 0 /\ m[2] = 0 /\ m[3] < Limb \div 2
            THEN 0 - (m[3] * Limb + m[4]) ELSE c
    ELSE IF c[1] = 0 /\ c[2] = 0 /\ c[3] < Limb \div 2
         THEN c[3] * Limb + c[4] ELSE c

\* a < b on unsigned numbers.
ULt(a, b) ==
    \/ a[1] < b[1]
    \/ a[1] = b[1] /\ a[2] < b[2]
    \/ a[1] = b[1] /\ a[2] = b[2] /\ a[3] < b[3]
    \/ a[1] = b[1] /\ a[2] = b[2] /\ a[3] = b[3] /\ a[4] < b[4]

\* stats.go:90,93  a < b on int64 (two's complement).
Lt64(a, b) ==
    IF IsNegative(a) # IsNegative(b) THEN IsNegative(a) ELSE ULt(a, b)

\* stats.go:96  a + b on int64: the carry out of the 64 bits is lost, so
\* the sum wraps.
Add64(a, b) ==
    LET s4 == a[4] + b[4]
        s3 == a[3] + b[3] + (s4 \div Limb)
        s2 == a[2] + b[2] + (s3 \div Limb)
        s1 == a[1] + b[1] + (s2 \div Limb)
    IN <<s1 % Limb, s2 % Limb, s3 % Limb, s4 % Limb>>

\* The unsigned number divided by n (0 < n < 2^15), the remainder dropped.
UDiv(c, n) ==
    LET t2 == (c[1] % n) * Limb + c[2]
        t3 == (t2 % n) * Limb + c[3]
        t4 == (t3 % n) * Limb + c[4]
    IN <<c[1] \div n, t2 \div n, t3 \div n, t4 \div n>>

\* stats.go:99  the / of Go on int64 (time.Duration): the quotient is
\* truncated toward zero, also for a negative dividend.
GoDiv64(c, n) ==
    IF IsNegative(c) THEN Negate(UDiv(Negate(c), n)) ELSE UDiv(c, n)

\* ------------------------------------------------------------------------
\* Stats.GetSummary
\* ------------------------------------------------------------------------

\* stats.go:85-97  the scan: the latencies are int64 values (in limbs).
\* Each step binds the new value of min, max or sum before it goes on,
\* as the loop's assignment does.
RECURSIVE ScanMin(_, _, _)
ScanMin(lat, i, acc) ==
    IF i > Len(lat) THEN acc
    ELSE CHOOSE r \in {ScanMin(lat, i + 1, min) :
                         min \in {IF Lt64(lat[i], acc) THEN lat[i] ELSE acc}} :
            TRUE

RECURSIVE ScanMax(_, _, _)
ScanMax(lat, i, acc) ==
    IF i > Len(lat) THEN acc
    ELSE CHOOSE r \in {ScanMax(lat, i + 1, max) :
                         max \in {IF Lt64(acc, lat[i]) THEN lat[i] ELSE acc}} :
            TRUE

\* stats.go:96  sum += lat: int64 addition, which wraps.
RECURSIVE ScanSum(_, _, _)
ScanSum(lat, i, acc) ==
    IF i > Len(lat) THEN acc
    ELSE CHOOSE r \in {ScanSum(lat, i + 1, sum) :
                         sum \in {Add64(acc, lat[i])}} : TRUE

\* stats.go:75-99  min, max and avg of GetSummary for the latencies lat
\* (int64 values in limbs); all zero when there is none.
ScanOf(lat) ==
    IF Len(lat) = 0
    THEN [MinLatency |-> Int64(0), MaxLatency |-> Int64(0),
          AvgLatency |-> Int64(0)]
    ELSE CHOOSE r \in {[MinLatency |-> ScanMin(l, 1, l[1]),
                        MaxLatency |-> ScanMax(l, 1, l[1]),
                        AvgLatency |-> GoDiv64(ScanSum(l, 1, Int64(0)),
                                               Len(l))] : l \in {lat}} :
            TRUE

\* Percentile(latencies, p): sort, index p/100*(n-1), linear interpolation
\* between the two bracketing samples, truncated to a whole duration.
Percentile(lat, p) ==
    IF Len(lat) = 0 THEN 0
    ELSE LET s   == SortSeq(lat, LAMBDA a, b : a < b)
             n   == Len(s)
             num == p * (n - 1)
             lo  == num \div 100
             fr  == num % 100
             hi  == IF lo + 1 < n THEN lo + 1 ELSE lo
         IN s[lo + 1] + ((s[hi + 1] - s[lo + 1]) * fr) \div 100

\* The Summary's StatusCodeCounts is the Stats' own map (a Go map is a
\* reference): the Summary records which map it points to.
StatsMapRef == "Stats.StatusCodeCounts"

\* stats.go:71-127  GetSummary of a Stats whose latencies are plain
\* integers of the model: the scan is made at the width of int64. RPS is
\* total / duration in seconds, kept as a fraction.
GetSummaryOf(s) ==
    IF Len(s.Latencies) = 0
    THEN [TotalRequests |-> s.TotalRequests,
          SuccessRequests |-> s.SuccessRequests,
          FailedRequests |-> s.FailedRequests,
          StatusCodeCounts |-> StatsMapRef,
          MinLatency |-> 0, MaxLatency |-> 0, AvgLatency |-> 0,
          P90Latency |-> 0, P95Latency |-> 0, P99Latency |-> 0,
          RPS |-> <<0, 1>>, Duration |-> 0]
    ELSE LET lat == s.Latencies
             duration == s.EndTime - s.StartTime
             Fields(scan) ==
                 [TotalRequests |-> s.TotalRequests,
                  SuccessRequests |-> s.SuccessRequests,
                  FailedRequests |-> s.FailedRequests,
                  StatusCodeCounts |-> StatsMapRef,
                  MinLatency |-> IntOf(scan.MinLatency),
                  MaxLatency |-> IntOf(scan.MaxLatency),
                  AvgLatency |-> IntOf(scan.AvgLatency),
                  P90Latency |-> Percentile(lat, 90),
                  P95Latency |-> Percentile(lat, 95),
                  P99Latency |-> Percentile(lat, 99),
                  RPS |-> IF duration > 0 THEN <<s.TotalRequests, duration>>
                          ELSE <<0, 1>>,
                  Duration |-> duration]
         IN CHOOSE v \in {Fields(scan) :
                            scan \in {ScanOf([i \in 1..Len(lat) |->
                                                Int64(lat[i])])}} : TRUE

\* Stats.GetProgressStats: the three counters.
GetProgressStatsOf(s) ==
    [TotalRequests |-> s.TotalRequests,
     SuccessRequests |-> s.SuccessRequests,
     FailedRequests |-> s.FailedRequests]

\* ------------------------------------------------------------------------
\* State
\* ------------------------------------------------------------------------

VARIABLES
    \* the Stats instance and the clock
    stats,          \* the fields of runner.Stats
    now,            \* the wall clock read by time.Now()
    \* SpecStats: concurrent callers of the Stats methods
    mu,             \* Stats.mu: [writer |-> 0 or a caller, readers |-> callers]
    spc,            \* each caller's position in the method it executes
    sarg,           \* the Result a caller passed to AddResult
    sreg,           \* the value a caller loaded for the increment it executes
    sret,           \* the value the caller's latest read returned
    started,        \* AddResult calls entered
    completed       \* AddResult calls returned

statsVars == <<mu, spc, sarg, sreg, sret, started, completed>>

VARIABLES
    \* Spec: the inputs of one run
    entry,          \* "cli" (runLoadTest) or "direct" (RunWithStatsAndChannel)
    config,         \* runner.Config: URLs, Concurrency, MaxRPS
    flags,          \* runLoadTest: whether --duration and --headers parse
    cliPc,          \* runLoadTest's position
    \* Spec: RunWithStatsAndChannel
    orchPc,         \* the orchestrator's position
    runErr,         \* the error returned, or the panic raised ("" for none)
    runSummary,     \* the Summary returned (NoValue before the return)
    statsSent,      \* whether the Stats went into statsChan
    ctx,            \* the context: "none", "active" or "done"
    results,        \* the results channel: [state, cap, buf]
    limiter,        \* the RateLimiter: [created, permits, stopped]
    rotIdx,         \* URLRotator.idx
    wg,             \* the WaitGroup counter
    spawned,        \* workers started by the loop of runner.go:112
    \* Spec: the collector goroutine
    collPc,         \* its position
    collItem,       \* the Result it received and has not added yet
    \* Spec: the workers
    wpc,            \* each worker's position
    wurl,           \* the URL of the worker's current request
    wresp,          \* the Response the worker got and has not delivered
    requests,       \* iterations begun by all workers (bounded)
    \* Spec: history of the run
    hist            \* counts and flags of the events the claims speak about

runVars == <<entry, config, flags, cliPc, orchPc, runErr, runSummary,
             statsSent, ctx, results, limiter, rotIdx, wg, spawned, collPc,
             collItem, wpc, wurl, wresp, requests, hist>>

vars == <<stats, now, statsVars, runVars>>

Procs == 1..NumProcs

\* What sret holds when the caller's latest call returned nothing.
NoValue == [kind |-> "none"]

\* ------------------------------------------------------------------------
\* Spec: inputs and initial values of a run
\* ------------------------------------------------------------------------

\* Config.URLs: no URL, one URL, two URLs.
URLLists == {<<>>, <<"A">>, <<"A", "B">>}

\* Config.Concurrency: negative, zero, one worker, two workers.
ConcurrencyValues == {-1, 0, 1, 2}

\* Config.MaxRPS: no limit, or a limit.
RPSValues == {0, 1}

\* The --duration and --headers flags of the run command parse, or do not.
FlagInputs == [durationOK : BOOLEAN, headersOK : BOOLEAN]

FlagsOK == [durationOK |-> TRUE, headersOK |-> TRUE]

\* The monitoring channel handed to RunWithStatsAndChannel: nil, with free
\* capacity, full with nobody receiving, or closed.
StatsChanKinds == {"nil", "free", "full", "closed"}

\* The workers a run can start (the largest Concurrency is 2).
Workers == {1, 2}

\* What the executor returns for one request: a transport error (status 0
\* and an error), or a response with its status code and no error.
Responses ==
    {[Latency |-> 1, StatusCode |-> 0, Error |-> TRUE],
     [Latency |-> 1, StatusCode |-> 200, Error |-> FALSE],
     [Latency |-> 1, StatusCode |-> 400, Error |-> FALSE]}

\* The results channel before make().
NoChannel == [state |-> "none", cap |-> 0, buf |-> <<>>]

\* var rateLimiter *RateLimiter (nil).
NoLimiter == [created |-> FALSE, permits |-> 0, stopped |-> FALSE]

\* The history of a run that has not begun.
\*   sent            Results enqueued by the workers
\*   closes          close(results) executed
\*   finalizes       stats.Finalize() executed
\*   deadlineFired   the context's deadline has fired
\*   sendOnClosed    a worker's send hit the closed channel
\*   inFlight        the workers whose request was in flight at the deadline
\*   abandonedSent   such a worker enqueued the Result of that request
\*   released        permits the rate limiter has released
\*   acquired        permits the workers have taken (Wait answered true)
\*   executed        requests handed to client.Do
\*   parked          the workers that were blocked in Wait at the deadline
\*   handed          SpecRot: the counter values Next obtained, in order
\*   returned        SpecRot: the URLs Next returned, in order of return
\*   visits          SpecRot: <<counter value, URL>> of the returned calls
\*   overlap         SpecRot: a call of Next began during another call
\*   panicked        SpecPanic: the workers in whose loop a panic was raised
NoHistory ==
    [sent |-> 0, closes |-> 0, finalizes |-> 0, deadlineFired |-> FALSE,
     sendOnClosed |-> FALSE, inFlight |-> {}, abandonedSent |-> FALSE,
     released |-> 0, acquired |-> 0, executed |-> 0, parked |-> {},
     handed |-> <<>>, returned |-> <<>>, visits |-> {}, overlap |-> FALSE,
     panicked |-> {}]

\* The values common to every initial state of a run.
RunStart ==
    /\ runErr = ""
    /\ runSummary = NoValue
    /\ statsSent = FALSE
    /\ ctx = "none"
    /\ results = NoChannel
    /\ limiter = NoLimiter
    /\ rotIdx = 0
    /\ wg = 0
    /\ spawned = 0
    /\ collPc = "none"
    /\ collItem = ZeroResult
    /\ wpc = [w \in Workers |-> "none"]
    /\ wurl = [w \in Workers |-> ""]
    /\ wresp = [w \in Workers |-> ZeroResult]
    /\ requests = 0
    /\ hist = NoHistory

\* No run takes place (the state of runVars in SpecStats).
RunIdle ==
    /\ entry = "none"
    /\ config = [URLs |-> <<>>, Concurrency |-> 0, MaxRPS |-> 0]
    /\ flags = FlagsOK
    /\ cliPc = "unused"
    /\ orchPc = "idle"
    /\ RunStart

\* ------------------------------------------------------------------------
\* SpecStats: the methods of Stats, statement by statement
\* ------------------------------------------------------------------------

\* sync.RWMutex: Lock waits until no writer and no reader holds it.
CanLock == mu.writer = 0 /\ mu.readers = {}

\* sync.RWMutex: RLock waits until no writer holds it.
CanRLock == mu.writer = 0

Goto(p, to) == spc' = [spc EXCEPT ![p] = to]

\* The Results the callers hand to AddResult: every status code with and
\* without an error, and a successful Result with another latency.
AddInputs ==
    {r \in Results : r.Latency = 1 \/ (r.StatusCode = 200 /\ ~r.Error)}

\* A caller enters AddResult with some Result.
AddResult_Call(p) ==
    /\ spc[p] = "idle"
    /\ started < MaxAdds
    /\ \E r \in AddInputs : sarg' = [sarg EXCEPT ![p] = r]
    /\ sret' = [sret EXCEPT ![p] = NoValue]
    /\ started' = started + 1
    /\ Goto(p, "add_lock")
    /\ UNCHANGED <<stats, now, mu, sreg, completed>>
    /\ UNCHANGED runVars

\* Mutant of AddResult_Lock: the write lock is taken without waiting for
\* the other holders (AddResult without mutual exclusion).
Mut_AddResult_Lock(p) ==
    /\ spc[p] = "add_lock"
    /\ mu' = [mu EXCEPT !.writer = p]
    /\ Goto(p, "add_ldTotal")
    /\ UNCHANGED <<stats, now, sarg, sreg, sret, started, completed>>
    /\ UNCHANGED runVars

\* stats.go:39  s.mu.Lock()
AddResult_Lock(p) ==
    /\ spc[p] = "add_lock"
    /\ CanLock
    /\ mu' = [mu EXCEPT !.writer = p]
    /\ Goto(p, "add_ldTotal")
    /\ UNCHANGED <<stats, now, sarg, sreg, sret, started, completed>>
    /\ UNCHANGED runVars

\* stats.go:42  s.TotalRequests++  (the load)
AddResult_LoadTotal(p) ==
    /\ spc[p] = "add_ldTotal"
    /\ sreg' = [sreg EXCEPT ![p] = stats.TotalRequests]
    /\ Goto(p, "add_stTotal")
    /\ UNCHANGED <<stats, now, mu, sarg, sret, started, completed>>
    /\ UNCHANGED runVars

\* stats.go:42  s.TotalRequests++  (the store)
AddResult_StoreTotal(p) ==
    /\ spc[p] = "add_stTotal"
    /\ stats' = [stats EXCEPT !.TotalRequests = sreg[p] + 1]
    /\ sreg' = [sreg EXCEPT ![p] = 0]
    /\ Goto(p, "add_append")
    /\ UNCHANGED <<now, mu, sarg, sret, started, completed>>
    /\ UNCHANGED runVars

\* stats.go:43  s.Latencies = append(s.Latencies, result.Latency)
AddResult_Append(p) ==
    /\ spc[p] = "add_append"
    /\ stats' = [stats EXCEPT !.Latencies = Append(@, sarg[p].Latency)]
    /\ Goto(p, "add_ldOutcome")
    /\ UNCHANGED <<now, mu, sarg, sreg, sret, started, completed>>
    /\ UNCHANGED runVars

\* stats.go:45-49  s.FailedRequests++ or s.SuccessRequests++  (the load)
AddResult_LoadOutcome(p) ==
    /\ spc[p] = "add_ldOutcome"
    /\ sreg' = [sreg EXCEPT ![p] = IF IsFailure(sarg[p])
                                   THEN stats.FailedRequests
                                   ELSE stats.SuccessRequests]
    /\ Goto(p, "add_stOutcome")
    /\ UNCHANGED <<stats, now, mu, sarg, sret, started, completed>>
    /\ UNCHANGED runVars

\* Mutant of AddResult_StoreOutcome: a Result with an error and a status
\* code below 400 is counted as a failure and as a success.
Mut_AddResult_StoreOutcome(p) ==
    /\ spc[p] = "add_stOutcome"
    /\ stats' = IF IsFailure(sarg[p])
                THEN IF sarg[p].StatusCode < 400
                     THEN [stats EXCEPT !.FailedRequests = sreg[p] + 1,
                                        !.SuccessRequests = @ + 1]
                     ELSE [stats EXCEPT !.FailedRequests = sreg[p] + 1]
                ELSE [stats EXCEPT !.SuccessRequests = sreg[p] + 1]
    /\ sreg' = [sreg EXCEPT ![p] = 0]
    /\ Goto(p, "add_hist")
    /\ UNCHANGED <<now, mu, sarg, sret, started, completed>>
    /\ UNCHANGED runVars

\* stats.go:45-49  s.FailedRequests++ or s.SuccessRequests++  (the store)
AddResult_StoreOutcome(p) ==
    /\ spc[p] = "add_stOutcome"
    /\ stats' = IF IsFailure(sarg[p])
                THEN [stats EXCEPT !.FailedRequests = sreg[p] + 1]
                ELSE [stats EXCEPT !.SuccessRequests = sreg[p] + 1]
    /\ sreg' = [sreg EXCEPT ![p] = 0]
    /\ Goto(p, "add_hist")
    /\ UNCHANGED <<now, mu, sarg, sret, started, completed>>
    /\ UNCHANGED runVars

\* stats.go:53-59  s.StatusCodeCounts[key]++, when a branch is taken
AddResult_Hist(p) ==
    /\ spc[p] = "add_hist"
    /\ stats' = IF HasHistKey(sarg[p])
                THEN [stats EXCEPT !.StatusCodeCounts =
                         MapPut(@, HistKey(sarg[p]),
                                MapGet(@, HistKey(sarg[p])) + 1)]
                ELSE stats
    /\ Goto(p, "add_unlock")
    /\ UNCHANGED <<now, mu, sarg, sreg, sret, started, completed>>
    /\ UNCHANGED runVars

\* stats.go:40  defer s.mu.Unlock(), and the return
AddResult_Unlock(p) ==
    /\ spc[p] = "add_unlock"
    /\ mu' = [mu EXCEPT !.writer = IF @ = p THEN 0 ELSE @]
    /\ sarg' = [sarg EXCEPT ![p] = ZeroResult]
    /\ completed' = completed + 1
    /\ Goto(p, "idle")
    /\ UNCHANGED <<stats, now, sreg, sret, started>>
    /\ UNCHANGED runVars

\* Mutant of GetProgressStats_RLock: the read lock is taken without
\* waiting for a writer (GetProgressStats reads during an AddResult).
Mut_GetProgressStats_RLock(p) ==
    /\ spc[p] = "idle"
    /\ mu' = [mu EXCEPT !.readers = @ \cup {p}]
    /\ sret' = [sret EXCEPT ![p] = NoValue]
    /\ Goto(p, "prog_read")
    /\ UNCHANGED <<stats, now, sarg, sreg, started, completed>>
    /\ UNCHANGED runVars

\* stats.go:138  s.mu.RLock() in GetProgressStats
GetProgressStats_RLock(p) ==
    /\ spc[p] = "idle"
    /\ CanRLock
    /\ mu' = [mu EXCEPT !.readers = @ \cup {p}]
    /\ sret' = [sret EXCEPT ![p] = NoValue]
    /\ Goto(p, "prog_read")
    /\ UNCHANGED <<stats, now, sarg, sreg, started, completed>>
    /\ UNCHANGED runVars

\* stats.go:139-145  the three counters are copied, then RUnlock
GetProgressStats_Return(p) ==
    /\ spc[p] = "prog_read"
    /\ sret' = [sret EXCEPT ![p] = [kind |-> "progress",
                                    val |-> GetProgressStatsOf(stats)]]
    /\ mu' = [mu EXCEPT !.readers = @ \ {p}]
    /\ Goto(p, "idle")
    /\ UNCHANGED <<stats, now, sarg, sreg, started, completed>>
    /\ UNCHANGED runVars

\* stats.go:72  s.mu.RLock() in GetSummary
GetSummary_RLock(p) ==
    /\ spc[p] = "idle"
    /\ CanRLock
    /\ mu' = [mu EXCEPT !.readers = @ \cup {p}]
    /\ sret' = [sret EXCEPT ![p] = NoValue]
    /\ Goto(p, "sum_read")
    /\ UNCHANGED <<stats, now, sarg, sreg, started, completed>>
    /\ UNCHANGED runVars

\* stats.go:73-126  the Summary is computed, then RUnlock
GetSummary_Return(p) ==
    /\ spc[p] = "sum_read"
    /\ sret' = [sret EXCEPT ![p] = [kind |-> "summary",
                                    val |-> GetSummaryOf(stats),
                                    after |-> completed]]
    /\ mu' = [mu EXCEPT !.readers = @ \ {p}]
    /\ Goto(p, "idle")
    /\ UNCHANGED <<stats, now, sarg, sreg, started, completed>>
    /\ UNCHANGED runVars

\* The callers of SpecStats are idle (the state of statsVars in Spec).
StatsIdle ==
    /\ mu = [writer |-> 0, readers |-> {}]
    /\ spc = [p \in Procs |-> "idle"]
    /\ sarg = [p \in Procs |-> ZeroResult]
    /\ sreg = [p \in Procs |-> 0]
    /\ sret = [p \in Procs |-> NoValue]
    /\ started = 0
    /\ completed = 0

InitStats ==
    /\ now = 1
    /\ stats = NewStats(1)
    /\ RunIdle
    /\ StatsIdle

NextStats ==
    \E p \in Procs :
        \/ AddResult_Call(p)
        \/ AddResult_Lock(p)
        \/ AddResult_LoadTotal(p)
        \/ AddResult_StoreTotal(p)
        \/ AddResult_Append(p)
        \/ AddResult_LoadOutcome(p)
        \/ AddResult_StoreOutcome(p)
        \/ AddResult_Hist(p)
        \/ AddResult_Unlock(p)
        \/ GetProgressStats_RLock(p)
        \/ GetProgressStats_Return(p)
        \/ GetSummary_RLock(p)
        \/ GetSummary_Return(p)

SpecStats == InitStats /\ [][NextStats]_vars

\* ------------------------------------------------------------------------
\* SpecSummary: AddResult, Finalize and GetSummary called one after another
\* ------------------------------------------------------------------------

\* The latencies of the Results added in SpecSummary.
SumLatVals == {1, 40, 100}

\* The Results added in SpecSummary: successes of each latency, and a
\* transport error.
SumInputs ==
    {[Latency |-> l, StatusCode |-> 200, Error |-> FALSE] : l \in SumLatVals}
    \cup {[Latency |-> 1, StatusCode |-> 0, Error |-> TRUE]}

\* The two callers that keep the Summary GetSummary returned to them: the
\* first call is made by caller 1, a later one by caller 2.
Holders == {1, 2}

\* What Percentile(s.Latencies, p) leaves in the slice it is given: the
\* samples as they were (it sorts a copy), or sorted (it sorts in place).
PercentileLeaves(lat) == {lat, SortSeq(lat, LAMBDA a, b : a < b)}

\* The histogram read now through a Summary: the Summary holds the Stats'
\* own map, not a copy.
SummaryHistogram(v) ==
    IF v.StatusCodeCounts = StatsMapRef THEN stats.StatusCodeCounts
    ELSE v.StatusCodeCounts

\* What SpecSummary leaves alone.
SumFrame ==
    /\ UNCHANGED <<mu, spc, sarg, sreg>>
    /\ UNCHANGED <<entry, config, flags, cliPc, orchPc, runErr, runSummary,
                   statsSent, ctx, results, limiter, rotIdx, wg, spawned,
                   collPc, collItem, wpc, wurl, wresp, requests>>

\* stats.go:38-61  AddResult(r), the whole call.
Sum_AddResult ==
    /\ started < MaxSamples
    /\ \E r \in SumInputs : stats' = AddResultTo(stats, r)
    /\ started' = started + 1
    /\ completed' = completed + 1
    /\ UNCHANGED <<now, sret, hist>>
    /\ SumFrame

\* stats.go:64-68  Finalize(): EndTime = time.Now(); time may have passed.
\* The model lets it be called twice.
Sum_Finalize ==
    /\ hist.finalizes < 2
    /\ \E t \in {now, now + 1} :
          /\ now' = t
          /\ stats' = [stats EXCEPT !.EndTime = t]
    /\ hist' = [hist EXCEPT !.finalizes = @ + 1]
    /\ completed' = completed + 1
    /\ UNCHANGED <<sret, started>>
    /\ SumFrame

\* What a caller keeps of a call of GetSummary: the Summary, the number
\* of AddResult and Finalize calls made before it, the number of Results
\* added before it, and the histogram as it was when the call returned.
Kept(s) ==
    [kind |-> "summary", val |-> GetSummaryOf(s), after |-> completed,
     adds |-> started, hist0 |-> s.StatusCodeCounts]

\* Mutant of Sum_GetSummary: GetSummary stamps the end time itself before
\* it computes the duration.
Mut_Sum_GetSummary(p) ==
    /\ p \in Holders
    /\ sret[p] = NoValue
    /\ p = 1 \/ sret[1] # NoValue
    /\ stats' = [stats EXCEPT !.EndTime = now]
    /\ sret' = [sret EXCEPT ![p] = Kept(stats')]
    /\ UNCHANGED <<now, started, completed, hist>>
    /\ SumFrame

\* stats.go:71-127  GetSummary(), the whole call. With no latency it
\* returns before Percentile is called.
Sum_GetSummary(p) ==
    /\ p \in Holders
    /\ sret[p] = NoValue
    /\ p = 1 \/ sret[1] # NoValue
    /\ sret' = [sret EXCEPT ![p] = Kept(stats)]
    /\ \E left \in PercentileLeaves(stats.Latencies) :
          stats' = [stats EXCEPT !.Latencies = left]
    /\ UNCHANGED <<now, started, completed, hist>>
    /\ SumFrame

InitSummary ==
    /\ now = 1
    /\ stats = NewStats(1)
    /\ RunIdle
    /\ StatsIdle

NextSummary ==
    \/ Sum_AddResult
    \/ Sum_Finalize
    \/ \E p \in Procs : Sum_GetSummary(p)

SpecSummary == InitSummary /\ [][NextSummary]_vars

\* ------------------------------------------------------------------------
\* SpecScan: the scan of GetSummary at the full width of the latencies
\* ------------------------------------------------------------------------

\* The latencies of the Results added in SpecScan, as int64 nanoseconds
\* in limbs: 1, 30 s (3 * 10^10, the client's timeout), 2^62 and 2^63 - 1
\* (the largest time.Duration). stats.Latencies holds limbs in this
\* specification.
ScanLatVals ==
    {<<0, 0, 0, 1>>,
     <<0, 6, 64547, 44032>>,
     <<16384, 0, 0, 0>>,
     <<32767, 65535, 65535, 65535>>}

\* stats.go:38-61  AddResult(r), the whole call, for a successful Result
\* of any of the latencies.
Scan_AddResult ==
    /\ started < MaxSamples
    /\ \E l \in ScanLatVals :
          stats' = AddResultTo(stats, [Latency |-> l, StatusCode |-> 200,
                                       Error |-> FALSE])
    /\ started' = started + 1
    /\ completed' = completed + 1
    /\ UNCHANGED <<now, sret, hist>>
    /\ SumFrame

\* stats.go:71-99  GetSummary() up to the average: the caller keeps min,
\* max and avg and the number of latencies they were computed from.
Scan_GetSummary ==
    /\ sret' = [sret EXCEPT ![1] =
                  [kind |-> "scan", n |-> Len(stats.Latencies),
                   val |-> ScanOf(stats.Latencies)]]
    /\ UNCHANGED <<stats, now, started, completed, hist>>
    /\ SumFrame

NextScan ==
    \/ Scan_AddResult
    \/ Scan_GetSummary

SpecScan == InitSummary /\ [][NextScan]_vars

\* ------------------------------------------------------------------------
\* Spec: runLoadTest (the run command)
\* ------------------------------------------------------------------------

\* Mutant of CliValid: the concurrency check rejects negative values only.
Mut_CliValid ==
    /\ flags.durationOK
    /\ Len(config.URLs) # 0
    /\ ~(config.Concurrency < 0)
    /\ flags.headersOK
    /\ ~(config.MaxRPS < 0)

\* worker.go:134-176  the checks of runLoadTest, in their order: the
\* duration parses, there is a URL, concurrency > 0, the headers parse,
\* max-rps >= 0.
CliValid ==
    /\ flags.durationOK
    /\ Len(config.URLs) # 0
    /\ ~(config.Concurrency <= 0)
    /\ flags.headersOK
    /\ ~(config.MaxRPS < 0)

\* worker.go:134-205  runLoadTest validates the flags, and either returns
\* an error or calls RunWithStatsAndChannel(config, statsChan) in a
\* goroutine.
RunLoadTest_Start ==
    /\ cliPc = "start"
    /\ IF CliValid
       THEN /\ cliPc' = "running"
            /\ orchPc' = "validate"
       ELSE /\ cliPc' = "failed"
            /\ orchPc' = orchPc
    /\ UNCHANGED <<entry, config, flags, runErr, runSummary, statsSent, ctx,
                   results, limiter, rotIdx, wg, spawned, collPc, collItem,
                   wpc, wurl, wresp, requests, hist>>
    /\ UNCHANGED <<stats, now, statsVars>>

\* worker.go:259-290  runLoadTest receives the error or the result of the
\* run and returns.
RunLoadTest_Finish ==
    /\ cliPc = "running"
    /\ orchPc \in {"error", "returned"}
    /\ cliPc' = IF orchPc = "error" THEN "failed" ELSE "done"
    /\ UNCHANGED <<entry, config, flags, orchPc, runErr, runSummary,
                   statsSent, ctx, results, limiter, rotIdx, wg, spawned,
                   collPc, collItem, wpc, wurl, wresp, requests, hist>>
    /\ UNCHANGED <<stats, now, statsVars>>

\* ------------------------------------------------------------------------
\* Spec: RunWithStatsAndChannel (the orchestrator)
\* ------------------------------------------------------------------------

ctxDone == ctx = "done"

\* Mutant of Orch_Validate: the URL list is not checked.
Mut_Orch_Validate ==
    /\ orchPc = "validate"
    /\ orchPc' = "setup"
    /\ UNCHANGED <<entry, config, flags, cliPc, runErr, runSummary, statsSent,
                   ctx, results, limiter, rotIdx, wg, spawned, collPc,
                   collItem, wpc, wurl, wresp, requests, hist>>
    /\ UNCHANGED <<stats, now, statsVars>>

\* runner.go:45-49  if len(config.URLs) == 0 { return nil, error }
Orch_Validate ==
    /\ orchPc = "validate"
    /\ IF Len(config.URLs) = 0
       THEN /\ orchPc' = "error"
            /\ runErr' = "at least one URL is required"
       ELSE /\ orchPc' = "setup"
            /\ runErr' = runErr
    /\ UNCHANGED <<entry, config, flags, cliPc, runSummary, statsSent, ctx,
                   results, limiter, rotIdx, wg, spawned, collPc, collItem,
                   wpc, wurl, wresp, requests, hist>>
    /\ UNCHANGED <<stats, now, statsVars>>

\* runner.go:51-65  the client, the rotator, the context with its deadline,
\* the results channel and the Stats. make(chan, n) with n < 0 panics; the
\* deferred cancel() then cancels the context.
Orch_Setup ==
    /\ orchPc = "setup"
    /\ rotIdx' = 0
    /\ IF config.Concurrency * ChanFactor < 0
       THEN /\ orchPc' = "panicked"
            /\ runErr' = "panic: makechan: size out of range"
            /\ ctx' = "done"
            /\ UNCHANGED <<results, stats>>
       ELSE /\ orchPc' = "offer"
            /\ ctx' = "active"
            /\ results' = [state |-> "open",
                           cap |-> config.Concurrency * ChanFactor,
                           buf |-> <<>>]
            /\ stats' = NewStats(now)
            /\ runErr' = runErr
    /\ UNCHANGED <<entry, config, flags, cliPc, runSummary, statsSent,
                   limiter, wg, spawned, collPc, collItem, wpc, wurl, wresp,
                   requests, hist>>
    /\ UNCHANGED <<now, statsVars>>

\* The monitoring channels a caller may pass: runLoadTest passes a fresh
\* channel of capacity 1; a direct caller passes any.
StatsChanInputs == IF entry = "cli" THEN {"free"} ELSE StatsChanKinds

\* runner.go:67-74  select { case statsChan <- stats: default: }. A nil
\* channel is skipped, a full one takes the default; a send on a closed
\* channel panics, also inside a select.
Orch_OfferStats ==
    /\ orchPc = "offer"
    /\ \E statsChan \in StatsChanInputs :
          IF statsChan = "closed"
          THEN /\ orchPc' = "panicked"
               /\ runErr' = "panic: send on closed channel"
               /\ ctx' = "done"
               /\ statsSent' = statsSent
          ELSE /\ orchPc' = "collector"
               /\ statsSent' = (statsChan = "free")
               /\ UNCHANGED <<runErr, ctx>>
    /\ UNCHANGED <<entry, config, flags, cliPc, runSummary, results, limiter,
                   rotIdx, wg, spawned, collPc, collItem, wpc, wurl, wresp,
                   requests, hist>>
    /\ UNCHANGED <<stats, now, statsVars>>

\* Mutant of Orch_StartCollector: the collector goroutine is not started
\* before the workers.
Mut_Orch_StartCollector ==
    /\ orchPc = "collector"
    /\ orchPc' = "limiter"
    /\ UNCHANGED <<entry, config, flags, cliPc, runErr, runSummary, statsSent,
                   ctx, results, limiter, rotIdx, wg, spawned, collPc,
                   collItem, wpc, wurl, wresp, requests, hist>>
    /\ UNCHANGED <<stats, now, statsVars>>

\* runner.go:76-99  go func() { ... }(): the collector goroutine starts.
Orch_StartCollector ==
    /\ orchPc = "collector"
    /\ collPc' = "select"
    /\ orchPc' = "limiter"
    /\ UNCHANGED <<entry, config, flags, cliPc, runErr, runSummary, statsSent,
                   ctx, results, limiter, rotIdx, wg, spawned, collItem, wpc,
                   wurl, wresp, requests, hist>>
    /\ UNCHANGED <<stats, now, statsVars>>

\* runner.go:101-106  if config.MaxRPS > 0 { rateLimiter = NewRateLimiter }
Orch_CreateLimiter ==
    /\ orchPc = "limiter"
    /\ limiter' = IF config.MaxRPS > 0
                  THEN [created |-> TRUE, permits |-> 0, stopped |-> FALSE]
                  ELSE limiter
    /\ orchPc' = "workers"
    /\ UNCHANGED <<entry, config, flags, cliPc, runErr, runSummary, statsSent,
                   ctx, results, rotIdx, wg, spawned, collPc, collItem, wpc,
                   wurl, wresp, requests, hist>>
    /\ UNCHANGED <<stats, now, statsVars>>

\* Mutant of Orch_StartWorker: the worker is started without wg.Add(1).
Mut_Orch_StartWorker ==
    /\ orchPc = "workers"
    /\ spawned < config.Concurrency
    /\ spawned' = spawned + 1
    /\ wpc' = [wpc EXCEPT ![spawned + 1] = "check"]
    /\ UNCHANGED <<entry, config, flags, cliPc, orchPc, runErr, runSummary,
                   statsSent, ctx, results, limiter, rotIdx, wg, collPc,
                   collItem, wurl, wresp, requests, hist>>
    /\ UNCHANGED <<stats, now, statsVars>>

\* runner.go:112-125  one iteration of the loop: wg.Add(1), NewWorker,
\* go func() { defer wg.Done(); worker.Start(ctx) }()
Orch_StartWorker ==
    /\ orchPc = "workers"
    /\ spawned < config.Concurrency
    /\ wg' = wg + 1
    /\ spawned' = spawned + 1
    /\ wpc' = [wpc EXCEPT ![spawned + 1] = "check"]
    /\ UNCHANGED <<entry, config, flags, cliPc, orchPc, runErr, runSummary,
                   statsSent, ctx, results, limiter, rotIdx, collPc, collItem,
                   wurl, wresp, requests, hist>>
    /\ UNCHANGED <<stats, now, statsVars>>

\* Mutant of Orch_AwaitDeadline: the orchestrator does not wait for the
\* context.
Mut_Orch_AwaitDeadline ==
    /\ orchPc = "workers"
    /\ ~(spawned < config.Concurrency)
    /\ orchPc' = "wait"
    /\ UNCHANGED <<entry, config, flags, cliPc, runErr, runSummary, statsSent,
                   ctx, results, limiter, rotIdx, wg, spawned, collPc,
                   collItem, wpc, wurl, wresp, requests, hist>>
    /\ UNCHANGED <<stats, now, statsVars>>

\* runner.go:112,127-128  the loop is over; <-ctx.Done()
Orch_AwaitDeadline ==
    /\ orchPc = "workers"
    /\ ~(spawned < config.Concurrency)
    /\ ctxDone
    /\ orchPc' = "wait"
    /\ UNCHANGED <<entry, config, flags, cliPc, runErr, runSummary, statsSent,
                   ctx, results, limiter, rotIdx, wg, spawned, collPc,
                   collItem, wpc, wurl, wresp, requests, hist>>
    /\ UNCHANGED <<stats, now, statsVars>>

\* Mutant of Orch_WaitWorkers: the channel is closed without waiting for
\* the workers.
Mut_Orch_WaitWorkers ==
    /\ orchPc = "wait"
    /\ orchPc' = "close"
    /\ UNCHANGED <<entry, config, flags, cliPc, runErr, runSummary, statsSent,
                   ctx, results, limiter, rotIdx, wg, spawned, collPc,
                   collItem, wpc, wurl, wresp, requests, hist>>
    /\ UNCHANGED <<stats, now, statsVars>>

\* runner.go:130-131  wg.Wait()
Orch_WaitWorkers ==
    /\ orchPc = "wait"
    /\ wg = 0
    /\ orchPc' = "close"
    /\ UNCHANGED <<entry, config, flags, cliPc, runErr, runSummary, statsSent,
                   ctx, results, limiter, rotIdx, wg, spawned, collPc,
                   collItem, wpc, wurl, wresp, requests, hist>>
    /\ UNCHANGED <<stats, now, statsVars>>

\* runner.go:133-135  close(results); closing a closed channel panics.
Orch_CloseResults ==
    /\ orchPc = "close"
    /\ IF results.state = "closed"
       THEN /\ orchPc' = "panicked"
            /\ runErr' = "panic: close of closed channel"
            /\ results' = results
       ELSE /\ orchPc' = "statsDone"
            /\ results' = [results EXCEPT !.state = "closed"]
            /\ runErr' = runErr
    /\ hist' = [hist EXCEPT !.closes = @ + 1]
    /\ UNCHANGED <<entry, config, flags, cliPc, runSummary, statsSent, ctx,
                   limiter, rotIdx, wg, spawned, collPc, collItem, wpc, wurl,
                   wresp, requests>>
    /\ UNCHANGED <<stats, now, statsVars>>

\* Mutant of Orch_AwaitCollector: Finalize is reached without waiting for
\* the collector.
Mut_Orch_AwaitCollector ==
    /\ orchPc = "statsDone"
    /\ orchPc' = "finalize"
    /\ UNCHANGED <<entry, config, flags, cliPc, runErr, runSummary, statsSent,
                   ctx, results, limiter, rotIdx, wg, spawned, collPc,
                   collItem, wpc, wurl, wresp, requests, hist>>
    /\ UNCHANGED <<stats, now, statsVars>>

\* runner.go:137-138  <-statsDone
Orch_AwaitCollector ==
    /\ orchPc = "statsDone"
    /\ collPc = "done"
    /\ orchPc' = "finalize"
    /\ UNCHANGED <<entry, config, flags, cliPc, runErr, runSummary, statsSent,
                   ctx, results, limiter, rotIdx, wg, spawned, collPc,
                   collItem, wpc, wurl, wresp, requests, hist>>
    /\ UNCHANGED <<stats, now, statsVars>>

\* runner.go:140-141, stats.go:64-68  stats.Finalize(): EndTime = time.Now()
Orch_Finalize ==
    /\ orchPc = "finalize"
    /\ stats' = [stats EXCEPT !.EndTime = now]
    /\ hist' = [hist EXCEPT !.finalizes = @ + 1]
    /\ orchPc' = "summary"
    /\ UNCHANGED <<entry, config, flags, cliPc, runErr, runSummary, statsSent,
                   ctx, results, limiter, rotIdx, wg, spawned, collPc,
                   collItem, wpc, wurl, wresp, requests>>
    /\ UNCHANGED <<now, statsVars>>

\* runner.go:143-149  summary := stats.GetSummary(); return. The deferred
\* rateLimiter.Stop() and cancel() run.
Orch_Return ==
    /\ orchPc = "summary"
    /\ runSummary' = [kind |-> "summary", val |-> GetSummaryOf(stats)]
    /\ limiter' = IF limiter.created
                  THEN [limiter EXCEPT !.stopped = TRUE]
                  ELSE limiter
    /\ ctx' = "done"
    /\ orchPc' = "returned"
    /\ UNCHANGED <<entry, config, flags, cliPc, runErr, statsSent, results,
                   rotIdx, wg, spawned, collPc, collItem, wpc, wurl, wresp,
                   requests, hist>>
    /\ UNCHANGED <<stats, now, statsVars>>

\* runner.go:58  context.WithTimeout: the deadline fires, once, while the
\* run is under way. Time has passed since the run began.
\* A worker blocked in rateLimiter.Wait(ctx) is woken by ctx.Done(): its
\* Wait answers false.
Deadline ==
    /\ ctx = "active"
    /\ ctx' = "done"
    /\ now' = now + 1
    /\ wpc' = [w \in Workers |->
                 IF wpc[w] = "parked" THEN "cancelled" ELSE wpc[w]]
    /\ hist' = [hist EXCEPT !.deadlineFired = TRUE,
                            !.inFlight = {w \in Workers : wpc[w] = "do"},
                            !.parked = {w \in Workers : wpc[w] = "parked"}]
    /\ UNCHANGED <<entry, config, flags, cliPc, orchPc, runErr, runSummary,
                   statsSent, results, limiter, rotIdx, wg, spawned, collPc,
                   collItem, wurl, wresp, requests>>
    /\ UNCHANGED <<stats, statsVars>>

\* ------------------------------------------------------------------------
\* Spec: the collector goroutine (runner.go:78-99)
\* ------------------------------------------------------------------------

\* The cases of the outer select that can proceed: a receive from results
\* (a buffered Result, or the closed and empty channel), and <-ctx.Done().
\* Go picks one of the ready cases at random.
CollSelectReady ==
    (IF results.buf # <<>> THEN {"recv"} ELSE {})
    \cup (IF results.buf = <<>> /\ results.state = "closed"
          THEN {"closed"} ELSE {})
    \cup (IF ctxDone THEN {"done"} ELSE {})

\* runner.go:80-87  the outer select: a Result is received; or the channel
\* is closed (ok = false) and the goroutine returns, closing statsDone; or
\* the context is done and the drain loop is entered.
Coll_Select ==
    /\ collPc = "select"
    /\ \E c \in CollSelectReady :
          CASE c = "recv" ->
                 /\ collItem' = Head(results.buf)
                 /\ results' = [results EXCEPT !.buf = Tail(@)]
                 /\ collPc' = "add"
            [] c = "closed" ->
                 /\ collPc' = "done"
                 /\ UNCHANGED <<collItem, results>>
            [] c = "done" ->
                 /\ collPc' = "drain"
                 /\ UNCHANGED <<collItem, results>>
    /\ UNCHANGED <<entry, config, flags, cliPc, orchPc, runErr, runSummary,
                   statsSent, ctx, limiter, rotIdx, wg, spawned, wpc, wurl,
                   wresp, requests, hist>>
    /\ UNCHANGED <<stats, now, statsVars>>

\* runner.go:86  stats.AddResult(result)
Coll_Add ==
    /\ collPc = "add"
    /\ stats' = AddResultTo(stats, collItem)
    /\ collItem' = ZeroResult
    /\ collPc' = "select"
    /\ UNCHANGED <<entry, config, flags, cliPc, orchPc, runErr, runSummary,
                   statsSent, ctx, results, limiter, rotIdx, wg, spawned, wpc,
                   wurl, wresp, requests, hist>>
    /\ UNCHANGED <<now, statsVars>>

\* The bound on Stats.TotalRequests in the drain loop: the loop is
\* followed on the closed channel until the Stats holds MaxTotal Results
\* (two more than the workers can have sent). The code has no such
\* limit; the model does not follow the loop further.
MaxTotal == 4

\* runner.go:89-95  the drain loop's select: `case result := <-results`
\* does not look at ok, so a buffered Result is received, and so is the
\* zero Result of a closed and empty channel; the default case is taken
\* only when the channel is open and empty.
Coll_Drain ==
    /\ collPc = "drain"
    /\ IF results.buf # <<>>
       THEN /\ collItem' = Head(results.buf)
            /\ results' = [results EXCEPT !.buf = Tail(@)]
            /\ collPc' = "drainAdd"
       ELSE IF results.state = "closed"
       THEN /\ stats.TotalRequests < MaxTotal
            /\ collItem' = ZeroResult
            /\ results' = results
            /\ collPc' = "drainAdd"
       ELSE /\ collPc' = "done"
            /\ UNCHANGED <<collItem, results>>
    /\ UNCHANGED <<entry, config, flags, cliPc, orchPc, runErr, runSummary,
                   statsSent, ctx, limiter, rotIdx, wg, spawned, wpc, wurl,
                   wresp, requests, hist>>
    /\ UNCHANGED <<stats, now, statsVars>>

\* runner.go:92  stats.AddResult(result) in the drain loop
Coll_DrainAdd ==
    /\ collPc = "drainAdd"
    /\ stats' = AddResultTo(stats, collItem)
    /\ collItem' = ZeroResult
    /\ collPc' = "drain"
    /\ UNCHANGED <<entry, config, flags, cliPc, orchPc, runErr, runSummary,
                   statsSent, ctx, results, limiter, rotIdx, wg, spawned, wpc,
                   wurl, wresp, requests, hist>>
    /\ UNCHANGED <<now, statsVars>>

\* ------------------------------------------------------------------------
\* Spec: the rate limiter and the URL rotator
\* ------------------------------------------------------------------------

\* RateLimiter: the ticker releases one permit per interval. The permit
\* goes to one worker blocked in Wait, whose Wait answers true; with no
\* worker blocked it is kept for the next caller; a permit that nobody
\* took is not accumulated.
Limiter_Tick ==
    /\ limiter.created
    /\ ~limiter.stopped
    /\ limiter.permits = 0
    /\ IF \E w \in Workers : wpc[w] = "parked"
       THEN /\ \E w \in Workers :
                  /\ wpc[w] = "parked"
                  /\ wpc' = [wpc EXCEPT ![w] = "next"]
            /\ limiter' = limiter
            /\ hist' = [hist EXCEPT !.released = @ + 1, !.acquired = @ + 1]
       ELSE /\ limiter' = [limiter EXCEPT !.permits = 1]
            /\ wpc' = wpc
            /\ hist' = [hist EXCEPT !.released = @ + 1]
    /\ UNCHANGED <<entry, config, flags, cliPc, orchPc, runErr, runSummary,
                   statsSent, ctx, results, rotIdx, wg, spawned, collPc,
                   collItem, wurl, wresp, requests>>
    /\ UNCHANGED <<stats, now, statsVars>>

\* RateLimiter.Wait(ctx): the answers that can be given at once. A nil
\* limiter (no rate limit) lets the caller through; otherwise true when a
\* permit is waiting, false when the context is done (either, when both
\* are), and with neither the caller blocks.
WaitReady ==
    IF ~limiter.created THEN {"through"}
    ELSE IF limiter.permits = 0 /\ ~ctxDone THEN {"block"}
    ELSE (IF limiter.permits > 0 THEN {"permit"} ELSE {})
         \cup (IF ctxDone THEN {"cancelled"} ELSE {})

\* urlrotator.go:14-23  NewURLRotator: nil for an empty list.
RotatorIsNil(urls) == Len(urls) = 0

\* Mutant of NextURL: the single-URL shortcut is taken for the nil check's
\* answer (len(r.urls) <= 1 returns "").
Mut_NextURL(urls, idx) ==
    IF RotatorIsNil(urls) \/ Len(urls) <= 1 THEN ""
    ELSE urls[(idx % Len(urls)) + 1]

\* urlrotator.go:26-37  the URL Next() returns for the counter value idx
\* ("" when there is no rotator or no URL). Go's % truncates toward
\* zero: a negative index would be out of range.
NextURL(urls, idx) ==
    IF RotatorIsNil(urls) \/ Len(urls) = 0 THEN ""
    ELSE IF Len(urls) = 1 THEN urls[1]
    ELSE urls[(idx % Len(urls)) + 1]

\* urlrotator.go:35  the counter after Next(): unchanged with fewer than
\* two URLs, else incremented (atomic.AddInt64; a run of at most
\* MaxRequests calls stays far from the int64 range).
NextIdx(urls, idx) ==
    IF RotatorIsNil(urls) \/ Len(urls) <= 1 THEN idx ELSE idx + 1

\* ------------------------------------------------------------------------
\* SpecRot: concurrent callers of URLRotator.Next on one rotator
\* ------------------------------------------------------------------------

\* The URL lists a rotator is built from: none, one, two, three URLs.
RotLists == {<<>>, <<"A">>, <<"A", "B">>, <<"A", "B", "C">>}

\* What the run variables other than config, rotIdx and hist hold while
\* only the rotator is exercised.
RotFrame ==
    UNCHANGED <<entry, config, flags, cliPc, orchPc, runErr, runSummary,
                statsSent, ctx, results, limiter, wg, spawned, collPc,
                collItem, wpc, wurl, wresp, requests>>

\* A call of Next has obtained its counter value and has not returned.
RotInProgress(p) == spc[p] = "rot_index"

\* Mutant of Rot_Add: the counter is read and written back in two steps,
\* and the write of a call that races with another one is lost.
Mut_Rot_Add_Racy(p) ==
    /\ spc[p] = "idle"
    /\ started < MaxCalls
    /\ Len(config.URLs) >= 2
    /\ started' = started + 1
    /\ sreg' = [sreg EXCEPT ![p] = rotIdx]
    /\ rotIdx' = IF \E q \in Procs : RotInProgress(q)
                  THEN rotIdx ELSE rotIdx + 1
    /\ hist' = [hist EXCEPT
                  !.handed = Append(@, rotIdx),
                  !.overlap = @ \/ \E q \in Procs : RotInProgress(q)]
    /\ Goto(p, "rot_index")
    /\ UNCHANGED <<sret, completed>>
    /\ UNCHANGED <<stats, now, mu, sarg>>
    /\ RotFrame

\* Mutant of Rot_Add: the value after the increment is used as the index
\* (the "- 1" is missing).
Mut_Rot_Add_OffByOne(p) ==
    /\ spc[p] = "idle"
    /\ started < MaxCalls
    /\ Len(config.URLs) >= 2
    /\ started' = started + 1
    /\ sreg' = [sreg EXCEPT ![p] = rotIdx + 1]
    /\ rotIdx' = NextIdx(config.URLs, rotIdx)
    /\ hist' = [hist EXCEPT
                  !.handed = Append(@, rotIdx + 1),
                  !.overlap = @ \/ \E q \in Procs : RotInProgress(q)]
    /\ Goto(p, "rot_index")
    /\ UNCHANGED <<sret, completed>>
    /\ UNCHANGED <<stats, now, mu, sarg>>
    /\ RotFrame

\* urlrotator.go:26-35  Next() with two URLs or more:
\* idx := atomic.AddInt64(&r.idx, 1) - 1, one atomic step.
Rot_Add(p) ==
    /\ spc[p] = "idle"
    /\ started < MaxCalls
    /\ Len(config.URLs) >= 2
    /\ started' = started + 1
    /\ sreg' = [sreg EXCEPT ![p] = rotIdx]
    /\ rotIdx' = NextIdx(config.URLs, rotIdx)
    /\ hist' = [hist EXCEPT
                  !.handed = Append(@, rotIdx),
                  !.overlap = @ \/ \E q \in Procs : RotInProgress(q)]
    /\ Goto(p, "rot_index")
    /\ UNCHANGED <<sret, completed>>
    /\ UNCHANGED <<stats, now, mu, sarg>>
    /\ RotFrame

\* urlrotator.go:36  return r.urls[int(idx)%len(r.urls)]
Rot_Return(p) ==
    /\ spc[p] = "rot_index"
    /\ LET url == NextURL(config.URLs, sreg[p])
       IN /\ sret' = [sret EXCEPT ![p] = [kind |-> "url", val |-> url]]
          /\ hist' = [hist EXCEPT
                        !.returned = Append(@, url),
                        !.visits = @ \cup {<<sreg[p], url>>}]
    /\ sreg' = [sreg EXCEPT ![p] = 0]
    /\ completed' = completed + 1
    /\ Goto(p, "idle")
    /\ UNCHANGED <<started, rotIdx>>
    /\ UNCHANGED <<stats, now, mu, sarg>>
    /\ RotFrame

\* urlrotator.go:26-32  Next() on a nil rotator, or with one URL: the
\* answer is given without touching the counter.
Rot_Short(p) ==
    /\ spc[p] = "idle"
    /\ started < MaxCalls
    /\ Len(config.URLs) < 2
    /\ started' = started + 1
    /\ completed' = completed + 1
    /\ LET url == NextURL(config.URLs, rotIdx)
       IN /\ sret' = [sret EXCEPT ![p] = [kind |-> "url", val |-> url]]
          /\ hist' = [hist EXCEPT !.returned = Append(@, url)]
    /\ rotIdx' = NextIdx(config.URLs, rotIdx)
    /\ UNCHANGED <<spc, sreg>>
    /\ UNCHANGED <<stats, now, mu, sarg>>
    /\ RotFrame

\* NewURLRotator(urls) for any of the lists; nobody has called Next.
InitRot ==
    /\ now = 1
    /\ stats = NewStats(0)
    /\ StatsIdle
    /\ entry = "rotator"
    /\ config \in [URLs : RotLists, Concurrency : {0}, MaxRPS : {0}]
    /\ flags = FlagsOK
    /\ cliPc = "unused"
    /\ orchPc = "idle"
    /\ RunStart

NextRot ==
    \E p \in Procs :
        \/ Rot_Add(p)
        \/ Rot_Return(p)
        \/ Rot_Short(p)

SpecRot == InitRot /\ [][NextRot]_vars

\* ------------------------------------------------------------------------
\* Spec: Worker.Start (worker.go:30-78)
\* ------------------------------------------------------------------------

\* The worker returns from Start: the deferred recover() and wg.Done() run.
WorkerExit(w) ==
    /\ wpc' = [wpc EXCEPT ![w] = "exited"]
    /\ wg' = wg - 1

\* Mutant of Worker_Check: the loop has no cancellation check of its own
\* and begins a new iteration whatever the context says.
Mut_Worker_Check(w) ==
    /\ wpc[w] = "check"
    /\ requests < MaxRequests
    /\ requests' = requests + 1
    /\ wpc' = [wpc EXCEPT ![w] = "wait"]
    /\ UNCHANGED <<entry, config, flags, cliPc, orchPc, runErr, runSummary,
                   statsSent, ctx, results, limiter, rotIdx, wg, spawned,
                   collPc, collItem, wurl, wresp, hist>>
    /\ UNCHANGED <<stats, now, statsVars>>

\* worker.go:37-43  select { case <-ctx.Done(): return; default: }
\* A new iteration is begun only while the model's budget lasts.
Worker_Check(w) ==
    /\ wpc[w] = "check"
    /\ IF ctxDone
       THEN /\ WorkerExit(w)
            /\ requests' = requests
       ELSE /\ requests < MaxRequests
            /\ requests' = requests + 1
            /\ wpc' = [wpc EXCEPT ![w] = "wait"]
            /\ wg' = wg
    /\ UNCHANGED <<entry, config, flags, cliPc, orchPc, runErr, runSummary,
                   statsSent, ctx, results, limiter, rotIdx, spawned, collPc,
                   collItem, wurl, wresp, hist>>
    /\ UNCHANGED <<stats, now, statsVars>>

\* Mutant of Worker_Wait: the worker does not ask the rate limiter.
Mut_Worker_Wait(w) ==
    /\ wpc[w] = "wait"
    /\ wpc' = [wpc EXCEPT ![w] = "next"]
    /\ UNCHANGED <<entry, config, flags, cliPc, orchPc, runErr, runSummary,
                   statsSent, ctx, results, limiter, rotIdx, wg, spawned,
                   collPc, collItem, wurl, wresp, requests, hist>>
    /\ UNCHANGED <<stats, now, statsVars>>

\* worker.go:45-49  if !w.rateLimiter.Wait(ctx) { return }
\* The call of Wait: it answers at once, or the worker blocks in it.
Worker_Wait(w) ==
    /\ wpc[w] = "wait"
    /\ \E a \in WaitReady :
          CASE a = "through" ->
                 /\ wpc' = [wpc EXCEPT ![w] = "next"]
                 /\ UNCHANGED <<wg, limiter, hist>>
            [] a = "permit" ->
                 /\ wpc' = [wpc EXCEPT ![w] = "next"]
                 /\ limiter' = [limiter EXCEPT !.permits = @ - 1]
                 /\ hist' = [hist EXCEPT !.acquired = @ + 1]
                 /\ wg' = wg
            [] a = "cancelled" ->
                 /\ WorkerExit(w)
                 /\ UNCHANGED <<limiter, hist>>
            [] a = "block" ->
                 /\ wpc' = [wpc EXCEPT ![w] = "parked"]
                 /\ UNCHANGED <<wg, limiter, hist>>
    /\ UNCHANGED <<entry, config, flags, cliPc, orchPc, runErr, runSummary,
                   statsSent, ctx, results, rotIdx, spawned, collPc, collItem,
                   wurl, wresp, requests>>
    /\ UNCHANGED <<stats, now, statsVars>>

\* Mutant of Worker_Cancelled: the answer of Wait is ignored and the
\* iteration goes on.
Mut_Worker_Cancelled(w) ==
    /\ wpc[w] = "cancelled"
    /\ wpc' = [wpc EXCEPT ![w] = "next"]
    /\ UNCHANGED <<entry, config, flags, cliPc, orchPc, runErr, runSummary,
                   statsSent, ctx, results, limiter, rotIdx, wg, spawned,
                   collPc, collItem, wurl, wresp, requests, hist>>
    /\ UNCHANGED <<stats, now, statsVars>>

\* worker.go:46-49  Wait, in which the worker was blocked, has answered
\* false: return.
Worker_Cancelled(w) ==
    /\ wpc[w] = "cancelled"
    /\ WorkerExit(w)
    /\ UNCHANGED <<entry, config, flags, cliPc, orchPc, runErr, runSummary,
                   statsSent, ctx, results, limiter, rotIdx, spawned, collPc,
                   collItem, wurl, wresp, requests, hist>>
    /\ UNCHANGED <<stats, now, statsVars>>

\* worker.go:51-64  selectedURL := w.urlRotator.Next(); an empty URL skips
\* the iteration; else the request is built and client.Do is entered.
Worker_Next(w) ==
    /\ wpc[w] = "next"
    /\ rotIdx' = NextIdx(config.URLs, rotIdx)
    /\ IF NextURL(config.URLs, rotIdx) = ""
       THEN /\ wpc' = [wpc EXCEPT ![w] = "check"]
            /\ wurl' = wurl
            /\ hist' = hist
       ELSE /\ wpc' = [wpc EXCEPT ![w] = "do"]
            /\ wurl' = [wurl EXCEPT ![w] = NextURL(config.URLs, rotIdx)]
            /\ hist' = [hist EXCEPT !.executed = @ + 1]
    /\ UNCHANGED <<entry, config, flags, cliPc, orchPc, runErr, runSummary,
                   statsSent, ctx, results, limiter, wg, spawned, collPc,
                   collItem, wresp, requests>>
    /\ UNCHANGED <<stats, now, statsVars>>

\* worker.go:64, client.go:50-97  client.Do returns: a transport error
\* (status 0), which is also what a cancelled request gives, or a response.
Worker_Do(w) ==
    /\ wpc[w] = "do"
    /\ \E r \in Responses : wresp' = [wresp EXCEPT ![w] = r]
    /\ wpc' = [wpc EXCEPT ![w] = "deliver"]
    /\ UNCHANGED <<entry, config, flags, cliPc, orchPc, runErr, runSummary,
                   statsSent, ctx, results, limiter, rotIdx, wg, spawned,
                   collPc, collItem, wurl, requests, hist>>
    /\ UNCHANGED <<stats, now, statsVars>>

\* The cases of the worker's last select that can proceed: <-ctx.Done(),
\* and the send (into free buffer space; or on the closed channel, which
\* panics). Go picks one of the ready cases at random.
DeliverReady ==
    (IF ctxDone THEN {"done"} ELSE {})
    \cup (IF results.state = "open" /\ Len(results.buf) < results.cap
          THEN {"send"} ELSE {})
    \cup (IF results.state = "closed" THEN {"panic"} ELSE {})

\* Mutant of Worker_Deliver: a worker whose request failed returns from
\* Start instead of emitting the Result.
Mut_Worker_Deliver(w) ==
    /\ wpc[w] = "deliver"
    /\ IF IsFailure(wresp[w])
       THEN /\ WorkerExit(w)
            /\ UNCHANGED <<results, hist>>
       ELSE /\ results.state = "open"
            /\ Len(results.buf) < results.cap
            /\ results' = [results EXCEPT !.buf = Append(@, wresp[w])]
            /\ wpc' = [wpc EXCEPT ![w] = "check"]
            /\ wg' = wg
            /\ hist' = [hist EXCEPT !.sent = @ + 1]
    /\ wresp' = [wresp EXCEPT ![w] = ZeroResult]
    /\ wurl' = [wurl EXCEPT ![w] = ""]
    /\ UNCHANGED <<entry, config, flags, cliPc, orchPc, runErr, runSummary,
                   statsSent, ctx, limiter, rotIdx, spawned, collPc, collItem,
                   requests>>
    /\ UNCHANGED <<stats, now, statsVars>>

\* worker.go:66-77  select { case <-ctx.Done(): return
\*                           case w.results <- Result{...}: }
\* A panic of the send is recovered by the deferred function and ends Start.
Worker_Deliver(w) ==
    /\ wpc[w] = "deliver"
    /\ \E c \in DeliverReady :
          CASE c = "done" ->
                 /\ WorkerExit(w)
                 /\ UNCHANGED <<results, hist>>
            [] c = "send" ->
                 /\ results' = [results EXCEPT !.buf = Append(@, wresp[w])]
                 /\ wpc' = [wpc EXCEPT ![w] = "check"]
                 /\ wg' = wg
                 /\ hist' = [hist EXCEPT
                               !.sent = @ + 1,
                               !.abandonedSent = @ \/ (w \in hist.inFlight)]
            [] c = "panic" ->
                 /\ WorkerExit(w)
                 /\ results' = results
                 /\ hist' = [hist EXCEPT !.sendOnClosed = TRUE]
    /\ wresp' = [wresp EXCEPT ![w] = ZeroResult]
    /\ wurl' = [wurl EXCEPT ![w] = ""]
    /\ UNCHANGED <<entry, config, flags, cliPc, orchPc, runErr, runSummary,
                   statsSent, ctx, limiter, rotIdx, spawned, collPc, collItem,
                   requests>>
    /\ UNCHANGED <<stats, now, statsVars>>

\* ------------------------------------------------------------------------
\* Spec: one run
\* ------------------------------------------------------------------------

\* A run is entered through runLoadTest with any flags, or by a direct
\* call of RunWithStatsAndChannel (Run, RunWithStats) with any Config.
Init ==
    /\ now = 1
    /\ stats = NewStats(0)
    /\ StatsIdle
    /\ entry \in {"cli", "direct"}
    /\ config \in [URLs : URLLists, Concurrency : ConcurrencyValues,
                   MaxRPS : RPSValues]
    /\ flags \in (IF entry = "cli" THEN FlagInputs ELSE {FlagsOK})
    /\ cliPc = (IF entry = "cli" THEN "start" ELSE "unused")
    /\ orchPc = (IF entry = "cli" THEN "idle" ELSE "validate")
    /\ RunStart

OrchNext ==
    \/ Orch_Validate
    \/ Orch_Setup
    \/ Orch_OfferStats
    \/ Orch_StartCollector
    \/ Orch_CreateLimiter
    \/ Orch_StartWorker
    \/ Orch_AwaitDeadline
    \/ Orch_WaitWorkers
    \/ Orch_CloseResults
    \/ Orch_AwaitCollector
    \/ Orch_Finalize
    \/ Orch_Return

CollNext ==
    \/ Coll_Select
    \/ Coll_Add
    \/ Coll_Drain
    \/ Coll_DrainAdd

WorkerNext(w) ==
    \/ Worker_Check(w)
    \/ Worker_Wait(w)
    \/ Worker_Cancelled(w)
    \/ Worker_Next(w)
    \/ Worker_Do(w)
    \/ Worker_Deliver(w)

CoreNext ==
    \/ OrchNext
    \/ CollNext
    \/ \E w \in Workers : WorkerNext(w)
    \/ Deadline
    \/ Limiter_Tick

Next ==
    \/ RunLoadTest_Start
    \/ RunLoadTest_Finish
    \/ CoreNext

Spec == Init /\ [][Next]_vars

\* The Go scheduler runs every goroutine that can take a step, the
\* deadline timer fires, the ticker ticks, and client.Do returns (its
\* client has a timeout).
Fairness ==
    /\ WF_vars(OrchNext)
    /\ WF_vars(CollNext)
    /\ \A w \in Workers : WF_vars(WorkerNext(w))
    /\ WF_vars(Deadline)
    /\ WF_vars(Limiter_Tick)

InitDirect == Init /\ entry = "direct"

FairSpec == InitDirect /\ [][CoreNext]_vars /\ Fairness

\* A rate-limited run of two workers, entered directly: the configuration
\* in which a worker can be suspended at each of its suspension points.
InitCancel ==
    /\ InitDirect
    /\ config = [URLs |-> <<"A">>, Concurrency |-> 2, MaxRPS |-> 1]

FairCancelSpec == InitCancel /\ [][CoreNext]_vars /\ Fairness

\* ------------------------------------------------------------------------
\* SpecIndex: the index Next computes, at the full width of the counter
\* ------------------------------------------------------------------------

\* rotIdx holds the int64 counter in limbs in this specification.

\* The counter before the calls on a platform whose Next increments it:
\* 0, and two short of 2^31, of 2^32 and of 2^63, the value at which the
\* int64 wraps to -2^63.
CounterStarts ==
    {<<0, 0, 0, 0>>,
     <<0, 0, 32767, 65534>>,
     <<0, 0, 65535, 65534>>,
     <<32767, 65535, 65535, 65534>>}

\* The lists of two or more URLs.
IndexLists == {<<"A", "B">>, <<"A", "B", "C">>}

\* The size of int on the platform the program is built for.
IntSizes == {32, 64}

\* urlrotator.go:36  int(idx): unchanged where int has 64 bits; where it
\* has 32, the low 32 bits, sign-extended.
IntConv(c, size) ==
    IF size = 64 THEN c
    ELSE IF c[3] >= Limb \div 2
         THEN <<Limb - 1, Limb - 1, c[3], c[4]>>
         ELSE <<0, 0, c[3], c[4]>>

\* The unsigned number modulo k.
UMod(c, k) ==
    ((((((c[1] % k) * Limb + c[2]) % k) * Limb + c[3]) % k) * Limb + c[4]) % k

\* urlrotator.go:36  the % of Go: the remainder has the sign of the
\* dividend.
GoRem(c, k) == IF IsNegative(c) THEN 0 - UMod(Negate(c), k) ELSE UMod(c, k)

\* urlrotator.go:36  int(idx) % len(r.urls)
RotIndex(c, k, size) == GoRem(IntConv(c, size), k)

\* urlrotator.go:8-11, 35  whether &r.idx is a misaligned address for
\* atomic.AddInt64. The platforms with an int of 32 bits (386, arm, mips)
\* are those on which a 64-bit atomic operation needs an address that is
\* a multiple of 8 and panics otherwise. idx follows the slice header
\* urls, of 12 bytes there, in a struct allocated at a multiple of 8, so
\* its address is 4 more than a multiple of 8 in every rotator. Where
\* int has 64 bits the header has 24 bytes and idx is aligned.
IdxUnaligned == config.IntSize = 32

\* urlrotator.go:33-36  one call of Next on a list of two or more URLs.
\* With idx misaligned atomic.AddInt64 panics and the counter is left as
\* it was: no index is computed. Else idx := atomic.AddInt64(&r.idx, 1)
\* - 1 is the counter's value before the call, and
\* r.urls[int(idx)%len(r.urls)] panics when the index is outside
\* 0..len-1.
Idx_Next(p) ==
    /\ started < MaxCalls
    /\ started' = started + 1
    /\ completed' = completed + 1
    /\ IF IdxUnaligned
       THEN /\ rotIdx' = rotIdx
            /\ sret' = [sret EXCEPT ![p] =
                          [kind |-> "unaligned", val |-> 0, panic |-> TRUE,
                           url |-> ""]]
       ELSE /\ rotIdx' = Inc64(rotIdx)
            /\ LET i == RotIndex(rotIdx, Len(config.URLs), config.IntSize)
                   ok == i >= 0 /\ i < Len(config.URLs)
               IN sret' = [sret EXCEPT ![p] =
                             [kind |-> "index", val |-> i, panic |-> ~ok,
                              url |-> IF ok THEN config.URLs[i + 1]
                                      ELSE ""]]
    /\ UNCHANGED <<spc, sreg, hist>>
    /\ UNCHANGED <<stats, now, mu, sarg>>
    /\ RotFrame

\* NewURLRotator(urls) on a platform with int of 32 or 64 bits. Where
\* Next increments the counter it stands at one of the starting values;
\* where Next panics before the increment it never leaves 0.
InitIndex ==
    /\ now = 1
    /\ stats = NewStats(0)
    /\ StatsIdle
    /\ entry = "index"
    /\ config \in [URLs : IndexLists, Concurrency : {0}, MaxRPS : {0},
                   IntSize : IntSizes]
    /\ flags = FlagsOK
    /\ cliPc = "unused"
    /\ orchPc = "idle"
    /\ runErr = ""
    /\ runSummary = NoValue
    /\ statsSent = FALSE
    /\ ctx = "none"
    /\ results = NoChannel
    /\ limiter = NoLimiter
    /\ rotIdx \in (IF IdxUnaligned THEN {<<0, 0, 0, 0>>} ELSE CounterStarts)
    /\ wg = 0
    /\ spawned = 0
    /\ collPc = "none"
    /\ collItem = ZeroResult
    /\ wpc = [w \in Workers |-> "none"]
    /\ wurl = [w \in Workers |-> ""]
    /\ wresp = [w \in Workers |-> ZeroResult]
    /\ requests = 0
    /\ hist = NoHistory

NextIndex == \E p \in Procs : Idx_Next(p)

SpecIndex == InitIndex /\ [][NextIndex]_vars

\* ------------------------------------------------------------------------
\* SpecWorker: workers built with NewWorker and started directly
\* ------------------------------------------------------------------------

\* The number of workers a caller starts on one channel.
WorkerCounts == {1, 2}

\* worker.go:19-27, urlrotator.go:14-23  a caller builds workers with
\* NewWorker on an open results channel, with the rotator NewURLRotator
\* gives for any URL list (nil for the empty one) and with a rate limiter
\* or none, and starts each with Start(ctx) on a context that is not
\* cancelled. config holds the URL list, the number of workers and
\* whether there is a limiter.
InitWorker ==
    /\ now = 1
    /\ stats = NewStats(1)
    /\ StatsIdle
    /\ entry = "worker"
    /\ config \in [URLs : URLLists, Concurrency : WorkerCounts,
                   MaxRPS : RPSValues]
    /\ flags = FlagsOK
    /\ cliPc = "unused"
    /\ orchPc = "idle"
    /\ runErr = ""
    /\ runSummary = NoValue
    /\ statsSent = FALSE
    /\ ctx = "active"
    /\ results = [state |-> "open",
                  cap |-> config.Concurrency * ChanFactor,
                  buf |-> <<>>]
    /\ limiter = (IF config.MaxRPS > 0
                  THEN [created |-> TRUE, permits |-> 0, stopped |-> FALSE]
                  ELSE NoLimiter)
    /\ rotIdx = 0
    /\ wg = config.Concurrency
    /\ spawned = config.Concurrency
    /\ collPc = "none"
    /\ collItem = ZeroResult
    /\ wpc = [w \in Workers |->
                IF w <= config.Concurrency THEN "check" ELSE "none"]
    /\ wurl = [w \in Workers |-> ""]
    /\ wresp = [w \in Workers |-> ZeroResult]
    /\ requests = 0
    /\ hist = NoHistory

\* The workers run, the context's deadline fires, the limiter ticks.
NextWorker ==
    \/ \E w \in Workers : WorkerNext(w)
    \/ Deadline
    \/ Limiter_Tick

SpecWorker == InitWorker /\ [][NextWorker]_vars

\* ------------------------------------------------------------------------
\* SpecPanic: a run in which a worker's loop can panic
\* ------------------------------------------------------------------------

\* urlrotator.go:36  whether r.urls[int(idx)%len(r.urls)] is an index
\* into the list, for the counter value c a call obtained.
IndexInRange(c) ==
    LET i == RotIndex(c, Len(config.URLs), config.IntSize)
    IN i >= 0 /\ i < Len(config.URLs)

\* urlrotator.go:27-36  whether a call of Next that finds the counter at
\* c panics. The lists of no and of one URL return before the counter is
\* touched. With two or more, atomic.AddInt64 panics on the misaligned
\* idx, and where idx is aligned the index expression panics when the
\* index is out of range.
NextPanics(c) ==
    /\ Len(config.URLs) >= 2
    /\ IdxUnaligned \/ ~IndexInRange(c)

\* worker.go:51-64, urlrotator.go:26-37  selectedURL := w.urlRotator.Next()
\* with the counter at its full width, when Next does not panic: no
\* rotator or no URL gives ""; one URL is returned without touching the
\* counter; else the counter is incremented and the URL at the index is
\* returned. if selectedURL == "" { continue } skips the iteration
\* whatever the list; else the URL is requested.
Worker_NextIndex(w) ==
    /\ wpc[w] = "next"
    /\ ~NextPanics(rotIdx)
    /\ LET n == Len(config.URLs)
           selectedURL ==
               IF n = 0 THEN ""
               ELSE IF n = 1 THEN config.URLs[1]
               ELSE config.URLs[RotIndex(rotIdx, n, config.IntSize) + 1]
       IN /\ rotIdx' = (IF n >= 2 THEN Inc64(rotIdx) ELSE rotIdx)
          /\ IF selectedURL = ""
             THEN /\ wpc' = [wpc EXCEPT ![w] = "check"]
                  /\ UNCHANGED <<wurl, hist>>
             ELSE /\ wpc' = [wpc EXCEPT ![w] = "do"]
                  /\ wurl' = [wurl EXCEPT ![w] = selectedURL]
                  /\ hist' = [hist EXCEPT !.executed = @ + 1]
    /\ UNCHANGED <<entry, config, flags, cliPc, orchPc, runErr, runSummary,
                   statsSent, ctx, results, limiter, wg, spawned, collPc,
                   collItem, wresp, requests>>
    /\ UNCHANGED <<stats, now, statsVars>>

\* Mutant of Worker_Panic: Start has no deferred recover(); the panic
\* leaves the goroutine and takes the process down, the orchestrator
\* with it.
Mut_Worker_Panic(w) ==
    /\ wpc[w] = "next"
    /\ NextPanics(rotIdx)
    /\ rotIdx' = (IF IdxUnaligned THEN rotIdx ELSE Inc64(rotIdx))
    /\ wpc' = [wpc EXCEPT ![w] = "exited"]
    /\ wg' = wg - 1
    /\ orchPc' = "panicked"
    /\ runErr' = "panic in Next"
    /\ hist' = [hist EXCEPT !.panicked = @ \cup {w}]
    /\ UNCHANGED <<entry, config, flags, cliPc, runSummary, statsSent, ctx,
                   results, limiter, spawned, collPc, collItem, wurl, wresp,
                   requests>>
    /\ UNCHANGED <<stats, now, statsVars>>

\* worker.go:52, urlrotator.go:33-36, worker.go:31-35, runner.go:121-124
\* the call of Next that panics (only lists of two or more URLs get as
\* far as the counter). With idx misaligned atomic.AddInt64 panics on
\* every call and the counter is left as it was. With idx aligned
\* atomic.AddInt64 has incremented the counter and
\* r.urls[int(idx)%len(r.urls)] panics when the index is out of range.
\* The deferred recover() of Start swallows the panic, Start returns, and
\* the goroutine's deferred wg.Done() runs.
Worker_Panic(w) ==
    /\ wpc[w] = "next"
    /\ NextPanics(rotIdx)
    /\ rotIdx' = (IF IdxUnaligned THEN rotIdx ELSE Inc64(rotIdx))
    /\ WorkerExit(w)
    /\ hist' = [hist EXCEPT !.panicked = @ \cup {w}]
    /\ UNCHANGED <<entry, config, flags, cliPc, orchPc, runErr, runSummary,
                   statsSent, ctx, results, limiter, spawned, collPc,
                   collItem, wurl, wresp, requests>>
    /\ UNCHANGED <<stats, now, statsVars>>

\* runner.go:55-128  RunWithStatsAndChannel with a valid Config of two
\* or more URLs, on a platform with int of 32 or 64 bits, as it reaches
\* <-ctx.Done(): the channel, the Stats, the collector, the limiter and
\* the workers exist, no worker has taken a step yet, and the rotator's
\* counter stands at the 0 NewURLRotator gave it.
InitPanic ==
    /\ now = 1
    /\ stats = NewStats(1)
    /\ StatsIdle
    /\ entry = "direct"
    /\ config \in [URLs : IndexLists, Concurrency : WorkerCounts,
                   MaxRPS : RPSValues, IntSize : IntSizes]
    /\ flags = FlagsOK
    /\ cliPc = "unused"
    /\ orchPc = "workers"
    /\ runErr = ""
    /\ runSummary = NoValue
    /\ statsSent = FALSE
    /\ ctx = "active"
    /\ results = [state |-> "open",
                  cap |-> config.Concurrency * ChanFactor,
                  buf |-> <<>>]
    /\ limiter = (IF config.MaxRPS > 0
                  THEN [created |-> TRUE, permits |-> 0, stopped |-> FALSE]
                  ELSE NoLimiter)
    /\ rotIdx = <<0, 0, 0, 0>>
    /\ wg = config.Concurrency
    /\ spawned = config.Concurrency
    /\ collPc = "select"
    /\ collItem = ZeroResult
    /\ wpc = [w \in Workers |->
                IF w <= config.Concurrency THEN "check" ELSE "none"]
    /\ wurl = [w \in Workers |-> ""]
    /\ wresp = [w \in Workers |-> ZeroResult]
    /\ requests = 0
    /\ hist = NoHistory

\* The steps of a worker whose rotator counts at full width.
WorkerNextPanic(w) ==
    \/ Worker_Check(w)
    \/ Worker_Wait(w)
    \/ Worker_Cancelled(w)
    \/ Worker_NextIndex(w)
    \/ Worker_Panic(w)
    \/ Worker_Do(w)
    \/ Worker_Deliver(w)

\* The run from <-ctx.Done() on: the orchestrator's shutdown, the
\* collector, the workers, the deadline and the limiter's ticker.
NextPanic ==
    \/ Orch_AwaitDeadline
    \/ Orch_WaitWorkers
    \/ Orch_CloseResults
    \/ Orch_AwaitCollector
    \/ Orch_Finalize
    \/ Orch_Return
    \/ CollNext
    \/ \E w \in Workers : WorkerNextPanic(w)
    \/ Deadline
    \/ Limiter_Tick

SpecPanic == InitPanic /\ [][NextPanic]_vars

\* ------------------------------------------------------------------------
\* Claims about Stats (checked under SpecStats)
\* ------------------------------------------------------------------------

\* The Stats is observable to a lock holder: no AddResult is inside its
\* critical section.
Observable == mu.writer = 0

\* C4: after any sequence of AddResult calls with any Results, in every
\* state a lock holder can observe, SuccessRequests + FailedRequests equals
\* TotalRequests and TotalRequests equals the number of retained latencies.
C4_SuccessPlusFailureIsTotal ==
    Observable =>
        /\ stats.SuccessRequests + stats.FailedRequests = stats.TotalRequests
        /\ stats.TotalRequests = Len(stats.Latencies)

\* C4 witness: two AddResult calls have returned, one counted as a success
\* and one as a failure, and the Stats is observable.
C4_Witness ==
    /\ Observable
    /\ completed >= 2
    /\ stats.SuccessRequests >= 1
    /\ stats.FailedRequests >= 1

\* C5 (as claimed): after any sequence of AddResult calls with any Results,
\* every histogram count is non-negative and the histogram counts, key 0
\* included, sum to TotalRequests.
C5_HistogramSumsToTotal ==
    Observable =>
        /\ \A k \in DOMAIN stats.StatusCodeCounts :
              stats.StatusCodeCounts[k] >= 0
        /\ MapSum(stats.StatusCodeCounts) = stats.TotalRequests

\* C6: whatever the interleaving of concurrent AddResult callers and of
\* GetProgressStats / GetSummary readers, no update is lost: once N calls
\* have returned and none is in progress, GetSummary reports total = N and
\* success + failure = N, and N latencies are retained; and every Summary
\* a reader was handed reports the number of calls returned by then.
C6_NoLostUpdate ==
    /\ started = completed =>
          LET sm == GetSummaryOf(stats)
          IN /\ sm.TotalRequests = completed
             /\ sm.SuccessRequests + sm.FailedRequests = completed
             /\ Len(stats.Latencies) = completed
    /\ \A p \in Procs :
          sret[p].kind = "summary" =>
              /\ sret[p].val.TotalRequests = sret[p].after
              /\ sret[p].val.SuccessRequests + sret[p].val.FailedRequests
                     = sret[p].after

\* C6 witness: two calls have returned, none is in progress, and a reader
\* was handed a Summary of total 2.
C6_Witness ==
    /\ completed >= 2
    /\ started = completed
    /\ \E p \in Procs :
          /\ sret[p].kind = "summary"
          /\ sret[p].val.TotalRequests >= 2

\* ------------------------------------------------------------------------
\* Claims about a run (checked under Spec and FairSpec)
\* ------------------------------------------------------------------------

\* No worker is inside Start: each is not started or has returned.
NoWorkerRunning == \A w \in Workers : wpc[w] \in {"none", "exited"}

\* C1: in a run that passes validation the results channel is closed at
\* most once, by the orchestrator's close statement, only after every
\* worker the run starts has returned from Start; and no worker's send ever
\* hits the closed channel.
C1_ClosedOnceAfterWorkers ==
    /\ hist.closes <= 1
    /\ hist.closes = 1 <=> results.state = "closed"
    /\ results.state = "closed" =>
          /\ orchPc \in {"statsDone", "finalize", "summary", "returned"}
          /\ spawned = config.Concurrency
          /\ NoWorkerRunning
          /\ wg = 0
    /\ ~hist.sendOnClosed

\* C1 witness: the channel is closed in a run of two workers that enqueued
\* a Result.
C1_Witness ==
    /\ results.state = "closed"
    /\ spawned = 2
    /\ hist.sent >= 1

\* C2 (as claimed): under fair scheduling, once the deadline has fired in
\* a run with at least one URL and one worker whose collector goroutine is
\* started, the collector loop terminates (statsDone is closed) and Run
\* returns a Summary.
C2_RunReturnsAfterDeadline ==
    (hist.deadlineFired /\ collPc # "none" /\ config.Concurrency >= 1
        /\ Len(config.URLs) >= 1)
        ~> (collPc = "done" /\ orchPc = "returned"
                /\ runSummary.kind = "summary")

\* C3 (as claimed): every Result a worker enqueued is in the statistics
\* when Run returns: the Summary's total is at least the number of
\* successful enqueues.
C3_EveryEnqueuedResultCounted ==
    orchPc = "returned" => runSummary.val.TotalRequests >= hist.sent

\* C7: Finalize is called at most once, and only when every worker has
\* returned and the collector goroutine has finished; no AddResult is
\* pending or executed after it; the Summary is computed after it; and a
\* run that returns has called it exactly once.
C7_FinalizeOnceAfterCollector ==
    /\ hist.finalizes <= 1
    /\ hist.finalizes = 1 =>
          /\ NoWorkerRunning
          /\ wg = 0
          /\ collPc = "done"
          /\ orchPc \in {"summary", "returned"}
    /\ collPc \in {"add", "drainAdd"} => hist.finalizes = 0
    /\ stats.EndTime # 0 => hist.finalizes = 1
    /\ runSummary.kind = "summary" => hist.finalizes = 1
    /\ orchPc = "returned" => hist.finalizes = 1

\* C7 witness: a run of two workers has returned, with Results counted.
C7_Witness ==
    /\ orchPc = "returned"
    /\ hist.finalizes = 1
    /\ spawned = 2
    /\ stats.TotalRequests >= 1

\* C8: with an empty URL list RunWithStatsAndChannel (Run, RunWithStats)
\* returns an error and no Summary from its first statement: no context
\* with a deadline, no collector, no rate limiter and no worker is ever
\* created, and no Stats is sent on the monitoring channel.
C8_EmptyURLsFailFast ==
    Len(config.URLs) = 0 =>
        /\ orchPc \in {"idle", "validate", "error"}
        /\ orchPc = "error" => runErr # ""
        /\ runSummary.kind = "none"
        /\ ctx = "none"
        /\ ~hist.deadlineFired
        /\ results.state = "none"
        /\ collPc = "none"
        /\ ~limiter.created
        /\ \A w \in Workers : wpc[w] = "none"
        /\ ~statsSent

\* C8 witness: a direct call with no URL has returned its error.
C8_Witness ==
    /\ entry = "direct"
    /\ Len(config.URLs) = 0
    /\ orchPc = "error"

\* The run has begun: its collector goroutine has been started.
RunBegun == collPc # "none"

\* C9 (as claimed): with concurrency <= 0 the run never begins and never
\* returns a Summary, whether it is entered through runLoadTest or through
\* Run / RunWithStatsAndChannel.
C9_NonPositiveConcurrencyNeverBegins ==
    config.Concurrency <= 0 => ~RunBegun /\ orchPc # "returned"

\* C9 (amended): entered through runLoadTest, concurrency <= 0 is an error
\* returned before RunWithStatsAndChannel is called, so the run never
\* begins; and by either entry no worker is started.
C9_CliRejectsNonPositiveConcurrency ==
    config.Concurrency <= 0 =>
        /\ \A w \in Workers : wpc[w] = "none"
        /\ entry = "cli" =>
              /\ cliPc \in {"start", "failed"}
              /\ orchPc = "idle"
              /\ ctx = "none"
              /\ ~RunBegun

\* C9 witness: runLoadTest has returned an error for flags that are valid
\* but for the concurrency.
C9_Witness ==
    /\ entry = "cli"
    /\ config.Concurrency <= 0
    /\ Len(config.URLs) # 0
    /\ flags = FlagsOK
    /\ cliPc = "failed"

\* C10 (as claimed): a worker whose request was in flight when the
\* deadline fired delivers no Result for that request.
C10_NoResultForAbandonedRequest == ~hist.abandonedSent

\* ------------------------------------------------------------------------
\* Claims about cancellation and the rate limiter
\* ------------------------------------------------------------------------

\* The orchestrator has left wg.Wait() behind (or never came to it).
PastWait ==
    orchPc \notin {"validate", "setup", "offer", "collector", "limiter",
                   "workers", "wait"}

\* C11: under fair scheduling, once the deadline has fired every worker
\* exits, wherever it was suspended (waiting for a permit, awaiting a
\* response, delivering a Result), and the orchestrator's wait for the
\* workers completes.
C11_WorkersExitAfterDeadline ==
    hist.deadlineFired ~> (NoWorkerRunning /\ PastWait)

\* C11 witness: the deadline fired while one worker awaited a response and
\* another was blocked waiting for a permit; both have exited and the
\* orchestrator is past wg.Wait().
C11_Witness ==
    /\ hist.deadlineFired
    /\ hist.inFlight # {}
    /\ hist.parked # {}
    /\ NoWorkerRunning
    /\ orchPc = "close"

\* C12: with a rate limiter configured, at every point of the run the
\* requests executed by all workers are no more than the permits the
\* workers took, which are no more than the permits the limiter released;
\* and the total of the Summary that Run returns is no more than the
\* permits released.
C12_RequestsWithinPermits ==
    config.MaxRPS > 0 =>
        /\ hist.executed <= hist.acquired
        /\ hist.acquired <= hist.released
        /\ orchPc = "returned" =>
               runSummary.val.TotalRequests <= hist.released

\* C12 witness: a rate-limited run of two workers that executed two
\* requests has returned a Summary counting one of them at least.
C12_Witness ==
    /\ config.MaxRPS > 0
    /\ spawned = 2
    /\ hist.executed >= 2
    /\ orchPc = "returned"
    /\ runSummary.val.TotalRequests >= 1

\* C13: a worker that was blocked in Wait when the context was cancelled
\* has been answered false and returns: it is never again at a point
\* where it advances the rotator, executes a request or sends a Result.
C13_BlockedWorkerExitsOnCancel ==
    \A w \in hist.parked :
        /\ wpc[w] \in {"cancelled", "exited"}
        /\ wurl[w] = ""
        /\ wresp[w] = ZeroResult

\* C13 witness: a worker that was blocked in Wait at the deadline has
\* exited.
C13_Witness ==
    \E w \in hist.parked : wpc[w] = "exited"

\* ------------------------------------------------------------------------
\* Claims about the URL rotator (checked under SpecRot)
\* ------------------------------------------------------------------------

\* The URLs of the rotator's list.
URLSet == {config.URLs[i] : i \in DOMAIN config.URLs}

\* How many returned calls of Next gave the URL u.
VisitCount(u) == Cardinality({v \in hist.visits : v[2] = u})

\* How many of the counter values handed out so far select the URL u.
SelectCount(u) ==
    Cardinality({i \in 1..Len(hist.handed) :
                    NextURL(config.URLs, hist.handed[i]) = u})

\* No call of Next is in progress.
RotQuiet == \A p \in Procs : ~RotInProgress(p)

\* C14: with K >= 1 URLs and sequential calls, the i-th call of Next
\* (counting from 0) returns urls[i mod K].
C14_SequentialRoundRobin ==
    (Len(config.URLs) >= 1 /\ ~hist.overlap) =>
        \A i \in 1..Len(hist.returned) :
            hist.returned[i] = config.URLs[((i - 1) % Len(config.URLs)) + 1]

\* C14 witness: nine sequential calls on {A,B,C} returned
\* A,B,C,A,B,C,A,B,C.
C14_Witness ==
    /\ config.URLs = <<"A", "B", "C">>
    /\ ~hist.overlap
    /\ hist.returned = <<"A", "B", "C", "A", "B", "C", "A", "B", "C">>

\* C15: with K >= 2 URLs and concurrent calls, the counter values handed
\* out are 0,1,2,... without gap or duplicate and every call has its own;
\* the endpoints selected by the values handed out so far have counts that
\* differ by at most 1, and so have the visits once the calls made have
\* all returned; and K consecutive counter values whose calls have
\* returned visit each endpoint exactly once.
C15_DistinctCounterValues ==
    Len(config.URLs) >= 2 =>
        /\ \A i \in 1..Len(hist.handed) : hist.handed[i] = i - 1
        /\ Cardinality(hist.visits) = completed
        /\ \A u, v \in URLSet : SelectCount(u) - SelectCount(v) <= 1
        /\ RotQuiet =>
              \A u, v \in URLSet : VisitCount(u) - VisitCount(v) <= 1
        /\ \A b \in 0..Len(hist.handed) :
              LET block == b..(b + Len(config.URLs) - 1)
              IN (\A j \in block : \E x \in hist.visits : x[1] = j) =>
                    \A u \in URLSet :
                        Cardinality({j \in block : <<j, u>> \in hist.visits})
                            = 1

\* C15 witness: six calls on {A,B,C}, some of them overlapping, have all
\* returned, and not in the order of their counter values.
C15_Witness ==
    /\ config.URLs = <<"A", "B", "C">>
    /\ hist.overlap
    /\ RotQuiet
    /\ completed >= 6
    /\ hist.returned[1] # "A"

\* C16: every call of Next on a rotator built from a non-empty list
\* returns a URL of that list, never the empty string.
C16_NextReturnsConfiguredURL ==
    Len(config.URLs) >= 1 =>
        /\ \A i \in 1..Len(hist.returned) :
              hist.returned[i] # "" /\ hist.returned[i] \in URLSet
        /\ \A p \in Procs :
              sret[p].kind = "url" => sret[p].val \in URLSet

\* C16 witness: concurrent calls on a two-URL rotator went around the list
\* twice; a single-URL rotator was called, too.
C16_Witness ==
    /\ Len(config.URLs) = 2
    /\ hist.overlap
    /\ Len(hist.returned) >= 4
    /\ hist.returned[4] = "B"

\* ------------------------------------------------------------------------
\* Claims about GetSummary (checked under SpecSummary)
\* ------------------------------------------------------------------------

\* A Stats with its latencies taken as a multiset (their order set aside).
Frozen(s) == [s EXCEPT !.Latencies = SortSeq(@, LAMBDA a, b : a < b)]

\* C17: two calls of GetSummary with no AddResult or Finalize between them
\* return equal Summaries, and a call of GetSummary leaves the counters,
\* the histogram, the timestamps and the multiset of latencies unchanged.
C17_GetSummaryIdempotentAndPure ==
    /\ [](\A p, q \in Holders :
            (/\ sret[p].kind = "summary"
             /\ sret[q].kind = "summary"
             /\ sret[p].after = sret[q].after)
                => /\ sret[p].val = sret[q].val
                   /\ sret[p].hist0 = sret[q].hist0)
    /\ [][completed' = completed => Frozen(stats') = Frozen(stats)]_vars

\* C17 witness: two successive calls on a Stats holding several distinct
\* latencies have returned.
C17_Witness ==
    /\ sret[1].kind = "summary"
    /\ sret[2].kind = "summary"
    /\ sret[1].after = sret[2].after
    /\ sret[1].adds >= 2
    /\ sret[1].val.MinLatency < sret[1].val.P90Latency
    /\ sret[1].val.P90Latency < sret[1].val.MaxLatency

\* C18 (as claimed): a Summary that was returned keeps all its values,
\* its histogram included, whatever is done to the Stats afterwards.
C18_SummaryNeverChanges ==
    \A p \in Holders :
        sret[p].kind = "summary" =>
            SummaryHistogram(sret[p].val) = sret[p].hist0

\* C19 (as claimed), for the average: whatever the non-empty collection
\* of latencies, the Summary has Min <= Avg <= Max. (Checked under
\* SpecScan.)
C19_LatencyOrder ==
    (sret[1].kind = "scan" /\ sret[1].n >= 1) =>
        /\ ~Lt64(sret[1].val.AvgLatency, sret[1].val.MinLatency)
        /\ ~Lt64(sret[1].val.MaxLatency, sret[1].val.AvgLatency)

\* C20: the Summary of a Stats that received no Result, taken before or
\* after Finalize, has zero counts, an empty histogram, and zero
\* latencies and RPS.
C20_EmptySummaryIsZero ==
    \A p \in Holders :
        (sret[p].kind = "summary" /\ sret[p].adds = 0) =>
            LET v == sret[p].val
            IN /\ v.TotalRequests = 0
               /\ v.SuccessRequests = 0
               /\ v.FailedRequests = 0
               /\ sret[p].hist0 = EmptyMap
               /\ v.MinLatency = 0 /\ v.AvgLatency = 0 /\ v.MaxLatency = 0
               /\ v.P90Latency = 0 /\ v.P95Latency = 0 /\ v.P99Latency = 0
               /\ v.RPS[1] = 0

\* C20 witness: no Result was added; one Summary was taken before any
\* Finalize and another after a Finalize that came later than the start.
C20_Witness ==
    /\ started = 0
    /\ sret[1].kind = "summary"
    /\ sret[1].after = 0
    /\ sret[2].kind = "summary"
    /\ sret[2].after >= 1
    /\ stats.EndTime > stats.StartTime

\* ------------------------------------------------------------------------
\* Claims about the effect of AddResult (checked under SpecStats)
\* ------------------------------------------------------------------------

\* Caller p executes the statement of AddResult that leads from position
\* a to position b.
Steps(p, a, b) == spc[p] = a /\ spc'[p] = b

\* The histogram after the count under key k was incremented.
HistInc(m, k) == MapPut(m, k, MapGet(m, k) + 1)

\* C21: each AddResult, whatever other callers do meanwhile, increments
\* TotalRequests by 1, appends exactly its latency, and increments exactly
\* one outcome counter: FailedRequests if the Result carries an error or
\* has a status code >= 400, and then the histogram key is the status code,
\* or 0 for a transport error; SuccessRequests otherwise. No other
\* statement changes the Stats.
C21_AddResultEffect ==
    [][/\ \A p \in Procs :
            /\ Steps(p, "add_stTotal", "add_append") =>
                   stats' = [stats EXCEPT !.TotalRequests = @ + 1]
            /\ Steps(p, "add_append", "add_ldOutcome") =>
                   stats' = [stats EXCEPT
                               !.Latencies = Append(@, sarg[p].Latency)]
            /\ Steps(p, "add_stOutcome", "add_hist") =>
                   IF sarg[p].Error \/ sarg[p].StatusCode >= 400
                   THEN stats' = [stats EXCEPT !.FailedRequests = @ + 1]
                   ELSE stats' = [stats EXCEPT !.SuccessRequests = @ + 1]
            /\ (/\ Steps(p, "add_hist", "add_unlock")
                /\ (sarg[p].Error \/ sarg[p].StatusCode >= 400)) =>
                   stats' = [stats EXCEPT !.StatusCodeCounts =
                               HistInc(@, IF sarg[p].Error
                                               /\ sarg[p].StatusCode = 0
                                          THEN 0
                                          ELSE sarg[p].StatusCode)]
       /\ stats' # stats =>
             \E p \in Procs :
                 \/ Steps(p, "add_stTotal", "add_append")
                 \/ Steps(p, "add_append", "add_ldOutcome")
                 \/ Steps(p, "add_stOutcome", "add_hist")
                 \/ Steps(p, "add_hist", "add_unlock")]_vars

\* C21 witness: two calls have returned, one with a transport error and
\* one with status 400 and no error; both are counted as failures, under
\* the keys 0 and 400.
C21_Witness ==
    /\ completed = 2
    /\ started = completed
    /\ stats.TotalRequests = 2
    /\ stats.FailedRequests = 2
    /\ stats.SuccessRequests = 0
    /\ Len(stats.Latencies) = 2
    /\ MapGet(stats.StatusCodeCounts, 0) = 1
    /\ MapGet(stats.StatusCodeCounts, 400) = 1

\* C23: the count under histogram key 0 is the number of added Results
\* that had an error and no valid (positive) status code: it starts at 0,
\* the histogram statement executed for such a Result raises it by 1, and
\* nothing else changes it; so it never exceeds the failures counted.
C23_SentinelIffErrorWithoutStatus ==
    /\ MapGet(stats.StatusCodeCounts, 0) = 0
    /\ [][LET claimed == {p \in Procs :
                            /\ Steps(p, "add_hist", "add_unlock")
                            /\ sarg[p].Error
                            /\ ~(sarg[p].StatusCode > 0)}
          IN MapGet(stats'.StatusCodeCounts, 0)
                = MapGet(stats.StatusCodeCounts, 0) + Cardinality(claimed)]_vars
    /\ [](Observable =>
            MapGet(stats.StatusCodeCounts, 0) <= stats.FailedRequests)

\* C23 witness: two failed Results were added, a transport error (status
\* 0) and an error that carries status 200; only the first is under key 0.
C23_Witness ==
    /\ Observable
    /\ completed = 2
    /\ stats.FailedRequests = 2
    /\ MapGet(stats.StatusCodeCounts, 0) = 1
    /\ MapGet(stats.StatusCodeCounts, 200) = 1

\* ------------------------------------------------------------------------
\* Claims about request failures and the start of a run (checked under Spec)
\* ------------------------------------------------------------------------

\* The request of worker w failed: a transport error, or a status >= 400.
RequestFailed(w) == wresp[w].Error \/ wresp[w].StatusCode >= 400

\* C22: a failed request neither stops its worker nor aborts the run.
\* While the context is not cancelled, the worker holding a failed response
\* enqueues it as a Result and goes on to its next iteration; a worker
\* returns from Start only once the context is done; an error or panic of
\* the run arises only before any request was made; and a run that
\* returns does so with a Summary and a nil error.
C22_FailureNeverStopsWorkerOrRun ==
    /\ [][\A w \in Workers :
            /\ (/\ wpc[w] = "deliver"
                /\ RequestFailed(w)
                /\ ~ctxDone
                /\ wpc'[w] # "deliver") =>
                   /\ wpc'[w] = "check"
                   /\ results'.buf = Append(results.buf, wresp[w])
            /\ (wpc[w] # "exited" /\ wpc'[w] = "exited") => ctxDone]_vars
    /\ [](runErr # "" => hist.executed = 0)
    /\ [](orchPc = "returned" =>
              runErr = "" /\ runSummary.kind = "summary")

\* C22 witness: a run has returned in which both requests failed, one with
\* a transport error and one with status 400, and both are in the Summary.
C22_Witness ==
    /\ orchPc = "returned"
    /\ runErr = ""
    /\ hist.executed = 2
    /\ hist.sent = 2
    /\ runSummary.kind = "summary"
    /\ runSummary.val.TotalRequests = 2
    /\ runSummary.val.FailedRequests = 2
    /\ MapGet(stats.StatusCodeCounts, 0) = 1
    /\ MapGet(stats.StatusCodeCounts, 400) = 1

\* C24: in every run that passes validation the collector goroutine is
\* started before the first worker: whenever a worker exists, or a Result
\* was sent, the collector has been started; and the orchestrator starts
\* workers only with the collector started.
C24_CollectorBeforeWorkers ==
    /\ (spawned >= 1 \/ \E w \in Workers : wpc[w] # "none") => RunBegun
    /\ (hist.sent >= 1 \/ results.buf # <<>>) => RunBegun
    /\ orchPc \in {"limiter", "workers"} => RunBegun

\* C24 witness: a worker has enqueued a Result while the other worker is
\* not started yet, and the collector is at its select.
C24_Witness ==
    /\ config.Concurrency = 2
    /\ spawned = 1
    /\ results.buf # <<>>
    /\ collPc = "select"

\* The workers that were started, and those that have not returned.
StartedWorkers == {w \in Workers : wpc[w] # "none"}

LiveWorkers == {w \in Workers : wpc[w] \notin {"none", "exited"}}

\* The orchestrator has left the loop that starts the workers.
PastWorkerLoop ==
    orchPc \in {"wait", "close", "statsDone", "finalize", "summary",
                "returned"}

\* C25: a run that passes validation starts exactly config.Concurrency
\* workers; the WaitGroup counts exactly the started workers that have not
\* returned (one Add per start, one Done per return); and the workers
\* draw their URLs from one rotator, whose counter is the number of
\* requests all of them made.
C25_ExactlyConcurrencyWorkers ==
    /\ Cardinality(StartedWorkers) = spawned
    /\ spawned > 0 => spawned <= config.Concurrency
    /\ PastWorkerLoop => spawned = config.Concurrency
    /\ wg = Cardinality(LiveWorkers)
    /\ Len(config.URLs) >= 2 => rotIdx = hist.executed

\* C25 witness: a run of two workers over two URLs has started both; one
\* has returned and the other has not, and both requests were made.
C25_Witness ==
    /\ config.Concurrency = 2
    /\ Len(config.URLs) = 2
    /\ PastWorkerLoop
    /\ spawned = 2
    /\ Cardinality(LiveWorkers) = 1
    /\ wg = 1
    /\ rotIdx = 2

\* C26: Run never returns a Summary before the deadline of its context has
\* fired: the orchestrator gets past <-ctx.Done(), closes the channel,
\* finalizes and returns only after the deadline, whatever the workers do
\* and also with no worker; and time has passed between the start and the
\* end the Stats records.
C26_NoSummaryBeforeDeadline ==
    /\ PastWorkerLoop => hist.deadlineFired
    /\ hist.closes >= 1 => hist.deadlineFired
    /\ hist.finalizes >= 1 =>
          hist.deadlineFired /\ stats.EndTime > stats.StartTime
    /\ runSummary.kind = "summary" => hist.deadlineFired

\* C26 witness: a run without any worker has returned its Summary, after
\* the deadline.
C26_Witness ==
    /\ config.Concurrency = 0
    /\ orchPc = "returned"
    /\ runSummary.kind = "summary"
    /\ hist.deadlineFired

\* ------------------------------------------------------------------------
\* Claims about what the collector adds (checked under Spec)
\* ------------------------------------------------------------------------

\* C27 (as claimed): every Result the collector adds was sent by a worker;
\* the statistics never count more Results than the workers enqueued.
C27_OnlySentResultsAdded == stats.TotalRequests <= hist.sent

\* C28 (as claimed): during a run no Result with status code 0 and no
\* error is passed to AddResult.
C28_NoZeroStatusWithoutError ==
    collPc \in {"add", "drainAdd"} =>
        ~(collItem.StatusCode = 0 /\ ~collItem.Error)

\* ------------------------------------------------------------------------
\* Claims about the monitoring channel (checked under Spec)
\* ------------------------------------------------------------------------

\* C30 (as claimed): handing the Stats to the monitoring channel never
\* aborts the run, whatever the channel's state: once the results channel
\* and the Stats exist, RunWithStatsAndChannel does not panic.
C30_OfferNeverAborts == orchPc = "panicked" => results.state = "none"

\* ------------------------------------------------------------------------
\* Claims about a worker without an endpoint (checked under SpecWorker)
\* ------------------------------------------------------------------------

\* C29 (as claimed): a worker whose rotator yields no endpoint stops: it
\* returns from Start instead of continuing its loop.
C29_NoEndpointStopsWorker ==
    [][\A w \in Workers :
          (/\ wpc[w] = "next"
           /\ NextURL(config.URLs, rotIdx) = ""
           /\ wpc'[w] # "next") => wpc'[w] = "exited"]_vars

\* ------------------------------------------------------------------------
\* Claims about progress snapshots (checked under SpecStats)
\* ------------------------------------------------------------------------

\* Snapshot a is at most snapshot b in each of the three counters.
SnapshotLeq(a, b) ==
    /\ a.TotalRequests <= b.TotalRequests
    /\ a.SuccessRequests <= b.SuccessRequests
    /\ a.FailedRequests <= b.FailedRequests

\* C31: every snapshot GetProgressStats returns, whatever the concurrent
\* AddResult callers are doing, has success + failure = total; a snapshot
\* returned later is at least every snapshot returned earlier in each
\* counter (and no snapshot is ahead of the Stats); and the statements of
\* GetProgressStats change nothing in the Stats.
C31_SnapshotConsistentMonotone ==
    /\ [](\A p \in Procs :
            sret[p].kind = "progress" =>
                /\ sret[p].val.SuccessRequests + sret[p].val.FailedRequests
                       = sret[p].val.TotalRequests
                /\ SnapshotLeq(sret[p].val, GetProgressStatsOf(stats)))
    /\ [][\A p \in Procs :
            /\ Steps(p, "prog_read", "idle") =>
                   \A q \in Procs :
                       sret[q].kind = "progress" =>
                           SnapshotLeq(sret[q].val, sret'[p].val)
            /\ (Steps(p, "idle", "prog_read")
                    \/ Steps(p, "prog_read", "idle")) => stats' = stats]_vars

\* C31 witness: a reader holds a snapshot of one counted Result while a
\* writer is in the middle of the next AddResult (the total is stored, the
\* outcome is not), and the Stats is two steps ahead of it.
C31_Witness ==
    \E p, q \in Procs :
        /\ sret[p].kind = "progress"
        /\ sret[p].val.TotalRequests = 1
        /\ spc[q] = "add_stOutcome"
        /\ stats.TotalRequests = 2
        /\ stats.SuccessRequests + stats.FailedRequests = 1

\* ------------------------------------------------------------------------
\* Claims about a panic in a worker (checked under SpecPanic)
\* ------------------------------------------------------------------------

\* C32: a panic raised inside a worker's loop is contained. The worker
\* has stopped; the WaitGroup still counts exactly the workers that have
\* not returned (one Done for the panicked worker too); the orchestrator
\* neither panics nor returns an error; and the shutdown keeps its order:
\* the channel is closed once, after all workers, Finalize runs once, and
\* a run that returns has a Summary.
C32_WorkerPanicContained ==
    /\ \A w \in hist.panicked : wpc[w] = "exited"
    /\ wg = Cardinality(LiveWorkers)
    /\ hist.panicked # {} =>
          /\ orchPc # "panicked"
          /\ runErr = ""
          /\ hist.closes <= 1
          /\ hist.finalizes <= 1
          /\ ~hist.sendOnClosed
          /\ results.state = "closed" => NoWorkerRunning /\ wg = 0
          /\ orchPc = "returned" =>
                /\ runSummary.kind = "summary"
                /\ hist.closes = 1
                /\ hist.finalizes = 1
                /\ collPc = "done"

\* C32 witness: in a run of two workers one worker panicked in its first
\* call of Next, the other left its loop without a panic, and the run
\* has returned a Summary after one close and one Finalize.
C32_Witness ==
    /\ spawned = 2
    /\ Cardinality(hist.panicked) = 1
    /\ \A w \in 1..2 : wpc[w] = "exited"
    /\ orchPc = "returned"
    /\ runSummary.kind = "summary"
    /\ hist.closes = 1
    /\ hist.finalizes = 1

\* ------------------------------------------------------------------------
\* Claims about the rotator's index (checked under SpecIndex)
\* ------------------------------------------------------------------------

\* C33 (as claimed): for a rotator of K >= 2 URLs the index computed from
\* the counter is within 0..K-1 for every value of the counter, across
\* the counter's wrap-around and the conversion to int.
C33_IndexAlwaysInRange ==
    \A p \in Procs :
        sret[p].kind = "index" =>
            /\ sret[p].val >= 0
            /\ sret[p].val < Len(config.URLs)
====
